---------------------------- MODULE Spec2Model ----------------------------
(***************************************************************************)
(* CS Case Profit extension: the statistics engine of ProbabilityBox, the  *)
(* market-hash-name builders and parsers of the site adapters, and the     *)
(* PricingService price table (lookup, cached load, invalidation).         *)
(*                                                                         *)
(* Money is counted in cents and odds in percent; a JavaScript number is   *)
(* a record [k, n, d]: an exact rational n/d (k = "num"), NaN, +/-Infinity *)
(* (k = "inf", sign in n) or undefined.  A string is a sequence of tokens. *)
(***************************************************************************)
EXTENDS Integers, Sequences, FiniteSets, TLC

VARIABLES
    \* ProbabilityBox (statistics pipeline of one view)
    caseData,       \* this.caseData: [casePrice, items] or Null before loadData
    items,          \* this.items: the processed items (with realPrice)
    stats,          \* the object calculateStats returned, Null before render
    cards,          \* the text of the stat cards renderStats wrote
    userCurrency,   \* this.userCurrency
    spc,            \* the view: "loading", "rendered", "errorCaseData" or "errorNoItems"
    pend,           \* loadData's three fetches once it is called: pending, resolved or rejected; or Null
    nav,            \* the page, the box in it, the polls and the loads of ProbabilityBox under navigation
    promo,          \* the promo banner: shown or not, and its dismissal in localStorage
    norm,           \* the latest item a site parser normalized, with its raw input
    testResult,     \* the test opening last clicked: the items it read, its draw, what it shows; or Null
    \* PricingService
    prices,         \* PricingService.prices: the in-memory snapshot, or Null
    lookup,         \* the last getRealPrice call: its arguments and what it returned
    \* the adapters' name handling
    nameIn,         \* the fields of the item a name is built for
    built,          \* the item an adapter produced, with its marketHashName, or Null
    parsed,         \* what parseItemName made of built.marketHashName, or Null
    \* the cached load of the price table
    storage,        \* chrome.storage.local: [data, time] under CACHE_KEY and CACHE_KEY_time
    now,            \* Date.now()
    ticks,          \* how often the clock has advanced
    pricesTime,     \* the timestamp the snapshot in PricingService.prices goes back to
    ld,             \* the fetchPrices calls: per caller, where it stands and what it saw
    cc              \* the clearCache calls: where the current one stands, how many there were

statsVars == <<caseData, items, stats, cards, userCurrency, spc, pend>>
nameVars == <<nameIn, built, parsed>>
loadVars == <<storage, now, ticks, pricesTime, ld, cc>>
vars == <<caseData, items, stats, cards, userCurrency, spc, pend, testResult, nav, promo, norm, prices, lookup,
          nameIn, built, parsed, storage, now, ticks, pricesTime, ld, cc>>

Null == [k |-> "null", n |-> 0, d |-> 1]

-----------------------------------------------------------------------------
(* JavaScript numbers *)

Abs(x) == IF x < 0 THEN -x ELSE x

RECURSIVE GCD(_, _)
GCD(a, b) == IF b = 0 THEN a ELSE GCD(b, a % b)

\* the rational n/d in lowest terms, d > 0
Norm(n, d) ==
    LET g == GCD(Abs(n), Abs(d))
        s == IF d < 0 THEN -1 ELSE 1
    IN  [k |-> "num", n |-> (s * n) \div g, d |-> (s * d) \div g]

Num(n) == [k |-> "num", n |-> n, d |-> 1]
NaN == [k |-> "NaN", n |-> 0, d |-> 1]
Inf(sign) == [k |-> "inf", n |-> sign, d |-> 1]
Undefined == [k |-> "undefined", n |-> 0, d |-> 1]

Sign(x) == IF x.n < 0 THEN -1 ELSE IF x.n > 0 THEN 1 ELSE 0

IsNum(x) == x.k = "num"

\* a + b
JsAdd(a, b) ==
    IF a.k = "num" /\ b.k = "num" THEN Norm(a.n * b.d + b.n * a.d, a.d * b.d)
    ELSE IF a.k = "inf" /\ b.k = "inf" THEN (IF a.n = b.n THEN a ELSE NaN)
    ELSE IF a.k = "inf" /\ b.k = "num" THEN a
    ELSE IF a.k = "num" /\ b.k = "inf" THEN b
    ELSE NaN

\* a * b
JsMul(a, b) ==
    IF a.k = "num" /\ b.k = "num" THEN Norm(a.n * b.n, a.d * b.d)
    ELSE IF a.k \in {"num", "inf"} /\ b.k \in {"num", "inf"}
         THEN (IF Sign(a) * Sign(b) = 0 THEN NaN ELSE Inf(Sign(a) * Sign(b)))
    ELSE NaN

\* a / b: a division by zero yields Infinity, and 0 / 0 yields NaN
JsDiv(a, b) ==
    IF a.k = "num" /\ b.k = "num"
    THEN IF b.n # 0 THEN Norm(a.n * b.d, a.d * b.n)
         ELSE IF a.n = 0 THEN NaN ELSE Inf(Sign(a))
    ELSE IF a.k = "inf" /\ b.k = "num" THEN Inf(IF Sign(b) < 0 THEN -(a.n) ELSE a.n)
    ELSE IF a.k = "num" /\ b.k = "inf" THEN Num(0)
    ELSE NaN

\* a - b
JsSub(a, b) == JsAdd(a, JsMul(Num(-1), b))

\* a > b: false as soon as one side is NaN or undefined
JsGt(a, b) ==
    IF a.k = "num" /\ b.k = "num" THEN a.n * b.d > b.n * a.d
    ELSE IF a.k = "inf" /\ b.k = "num" THEN a.n > 0
    ELSE IF a.k = "num" /\ b.k = "inf" THEN b.n < 0
    ELSE IF a.k = "inf" /\ b.k = "inf" THEN a.n > b.n
    ELSE FALSE

\* Math.max(...xs): -Infinity for no argument, NaN as soon as one is NaN
RECURSIVE MathMax(_)
MathMax(xs) ==
    IF xs = <<>> THEN Inf(-1)
    ELSE LET h == Head(xs)
             r == MathMax(Tail(xs))
         IN  IF h.k \notin {"num", "inf"} \/ r.k = "NaN" THEN NaN
             ELSE IF JsGt(h, r) THEN h ELSE r

\* Math.min(...xs): +Infinity for no argument, NaN as soon as one is NaN
RECURSIVE MathMin(_)
MathMin(xs) ==
    IF xs = <<>> THEN Inf(1)
    ELSE LET h == Head(xs)
             r == MathMin(Tail(xs))
         IN  IF h.k \notin {"num", "inf"} \/ r.k = "NaN" THEN NaN
             ELSE IF JsGt(r, h) THEN h ELSE r

\* Number.prototype.toFixed(digits) of a finite number: the number of
\* 10^-digits units, rounded half up; the text "NaN"/"Infinity" otherwise
Pow10(digits) == IF digits = 0 THEN 1 ELSE IF digits = 1 THEN 10 ELSE IF digits = 2 THEN 100 ELSE 1000

ToFixed(x, digits) ==
    IF x.k = "num"
    THEN [text |-> "fixed", units |-> (2 * x.n * Pow10(digits) + x.d) \div (2 * x.d), digits |-> digits]
    ELSE [text |-> IF x.k = "inf" THEN "Infinity" ELSE "NaN", units |-> 0, digits |-> digits]

-----------------------------------------------------------------------------
(* JavaScript strings, as sequences of tokens.  A token is a piece of text *)
(* no string operation of the code cuts: a word, a space, a glyph.         *)

SP == " "
Sep == <<" ", "|", " ">>                 \* ' | '
StarGlyphs == {"U+2605", "U+2606", "U+22C6", "*"}   \* black star, white star, star operator, asterisk
StarCanon == <<"U+2605", " ">>       \* the canonical prefix: black star, space
StatTrakTM == <<"StatTrak", "(TM)", " ">>   \* 'StatTrak' + U+2122 + ' '
WearNames == {"Factory New", "Minimal Wear", "Field-Tested", "Well-Worn", "Battle-Scarred"}

\* s.startsWith(p)
StartsWith(s, p) == Len(s) >= Len(p) /\ SubSeq(s, 1, Len(p)) = p

\* s.endsWith(p)
EndsWith(s, p) == Len(s) >= Len(p) /\ SubSeq(s, Len(s) - Len(p) + 1, Len(s)) = p

\* s.indexOf(p), 1-based; 0 when p does not occur
IndexOf(s, p) ==
    LET at == {i \in 1..(Len(s) - Len(p) + 1) : SubSeq(s, i, i + Len(p) - 1) = p}
    IN  IF at = {} THEN 0 ELSE CHOOSE i \in at : \A j \in at : i <= j

\* s.includes(p)
Includes(s, p) == IndexOf(s, p) # 0

\* s.replace(p, r) with a string pattern: the first occurrence only
ReplaceFirst(s, p, r) ==
    LET i == IndexOf(s, p)
    IN  IF i = 0 THEN s
        ELSE SubSeq(s, 1, i - 1) \o r \o SubSeq(s, i + Len(p), Len(s))

\* s.substring(n)
Substring(s, n) == SubSeq(s, n + 1, Len(s))

RECURSIVE TrimStart(_)
TrimStart(s) == IF s # <<>> /\ Head(s) = SP THEN TrimStart(Tail(s)) ELSE s

RECURSIVE TrimEnd(_)
TrimEnd(s) ==
    IF s # <<>> /\ s[Len(s)] = SP THEN TrimEnd(SubSeq(s, 1, Len(s) - 1)) ELSE s

\* s.trim()
Trim(s) == TrimEnd(TrimStart(s))

\* s.split(' | ')[0]
SplitPart0(s) ==
    LET i == IndexOf(s, Sep)
    IN  IF i = 0 THEN s ELSE SubSeq(s, 1, i - 1)

\* s.split(' | ')[1] || '' : the text between the first and the second ' | '
SplitPart1(s) ==
    LET i == IndexOf(s, Sep)
    IN  IF i = 0 THEN <<>> ELSE SplitPart0(SubSeq(s, i + Len(Sep), Len(s)))

-----------------------------------------------------------------------------
(* PricingService: market hash names and the price lookup *)

\* JavaScript null or '' in a slot that holds a string (a phase)
NoPhase == "null"

PhaseDigitNames == {"Phase 0", "Phase 1", "Phase 2", "Phase 3", "Phase 4",
                    "Phase 5", "Phase 6", "Phase 7", "Phase 8", "Phase 9"}
GemNames == <<"Ruby", "Sapphire", "Emerald", "Black Pearl">>

RECURSIVE LeadingSpaces(_)
LeadingSpaces(s) == IF s # <<>> /\ Head(s) = SP THEN 1 + LeadingSpaces(Tail(s)) ELSE 0

\* starMatch[0].length for /^(\u2605|\u2606|\u22C6|\*)\s*/, 0 when there is no match
StarMatchLen(s) ==
    IF s # <<>> /\ Head(s) \in StarGlyphs THEN 1 + LeadingSpaces(Tail(s)) ELSE 0

getMarketHashName(weaponName, skinName, exterior, isStattrak) ==
    LET m == StarMatchLen(weaponName)
        starPrefix == IF m > 0 THEN StarCanon ELSE <<>>
        cleanWeaponName == IF m > 0 THEN Substring(weaponName, m) ELSE weaponName
        stattrakPrefix == IF isStattrak THEN StatTrakTM ELSE <<>>
    IN  IF exterior = <<>>
        THEN starPrefix \o stattrakPrefix \o cleanWeaponName \o Sep \o skinName
        ELSE starPrefix \o stattrakPrefix \o cleanWeaponName \o Sep \o skinName
                 \o <<" ", "(">> \o exterior \o <<")">>

\* the first of / Phase \d$/, / Ruby$/, / Sapphire$/, / Emerald$/, / Black Pearl$/
\* that matches is removed
stripPhaseFromHashName(hashName) ==
    LET n == Len(hashName)
        last == hashName[n]
    IN  IF n >= 2 /\ hashName[n - 1] = SP
           /\ (last \in PhaseDigitNames \/ \E i \in 1..Len(GemNames) : last = GemNames[i])
        THEN SubSeq(hashName, 1, n - 2)
        ELSE hashName

\* a snapshot: the JSON object of the price source, hash name -> price entry
Snapshot(tbl) == [tbl |-> tbl]

\* a price entry: price is a number or Null; doppler.has tells whether the entry
\* has a doppler sub-table, doppler.tbl maps its phase keys to a number or Null
Entry(price, has, tbl) == [price |-> price, doppler |-> [has |-> has, tbl |-> tbl]]

\* a variant that answers 0 for whatever it cannot resolve
getRealPriceZeroForUnknown(P, weaponName, skinName, exterior, isStattrak, marketHashName, phase) ==
    IF P = Null THEN Num(0)
    ELSE LET fullName == IF marketHashName # <<>> THEN marketHashName
                      ELSE getMarketHashName(weaponName, skinName, exterior, isStattrak)
             hashName == IF phase # NoPhase THEN stripPhaseFromHashName(fullName) ELSE fullName
         IN  IF hashName \notin DOMAIN P.tbl THEN Num(0)
             ELSE LET item == P.tbl[hashName]
                  IN  IF item.doppler.has /\ phase # NoPhase
                      THEN IF phase \in DOMAIN item.doppler.tbl /\ item.doppler.tbl[phase] # Null
                           THEN item.doppler.tbl[phase]
                           ELSE Num(0)
                      ELSE IF item.price = Null THEN Num(0) ELSE item.price

\* a variant that resolves a supplied phase against the doppler sub-table only
getRealPriceStrictPhase(P, weaponName, skinName, exterior, isStattrak, marketHashName, phase) ==
    IF P = Null THEN Null
    ELSE LET fullName == IF marketHashName # <<>> THEN marketHashName
                      ELSE getMarketHashName(weaponName, skinName, exterior, isStattrak)
             hashName == IF phase # NoPhase THEN stripPhaseFromHashName(fullName) ELSE fullName
         IN  IF hashName \notin DOMAIN P.tbl THEN Null
             ELSE LET item == P.tbl[hashName]
                  IN  IF phase # NoPhase
                      THEN IF item.doppler.has /\ phase \in DOMAIN item.doppler.tbl
                           THEN item.doppler.tbl[phase]
                           ELSE Null
                      ELSE item.price

\* getRealPrice, P being this.prices
getRealPrice(P, weaponName, skinName, exterior, isStattrak, marketHashName, phase) ==
    IF P = Null THEN Null
    ELSE LET fullName == IF marketHashName # <<>> THEN marketHashName
                      ELSE getMarketHashName(weaponName, skinName, exterior, isStattrak)
             hashName == IF phase # NoPhase THEN stripPhaseFromHashName(fullName) ELSE fullName
         IN  IF hashName \notin DOMAIN P.tbl THEN Null
             ELSE LET item == P.tbl[hashName]
                  IN  IF item.doppler.has /\ phase # NoPhase
                      THEN IF phase \in DOMAIN item.doppler.tbl
                           THEN item.doppler.tbl[phase]
                           ELSE Null
                      ELSE item.price

-----------------------------------------------------------------------------
(* CurrencyService *)

defaultCurrency == [name |-> "USD", rate |-> Num(1), symbol |-> "$"]

\* a >= b
JsGe(a, b) == JsGt(a, b) \/ (a.k = "num" /\ b.k = "num" /\ a.n * b.d = b.n * a.d)
                         \/ (a.k = "inf" /\ b.k = "inf" /\ a.n = b.n)

\* Math.abs(a)
MathAbs(a) == IF a.k \in {"num", "inf"} THEN [a EXCEPT !.n = Abs(a.n)] ELSE NaN

\* formatPrice(usdPrice, currency): the symbol and converted.toFixed(2)
formatPrice(usdPrice, currency) ==
    [symbol |-> currency.symbol, prefix |-> "", amount |-> ToFixed(JsMul(usdPrice, currency.rate), 2)]

\* formatProfit(usdProfit, currency): the sign, the symbol and |converted|.toFixed(2)
formatProfit(usdProfit, currency) ==
    LET converted == JsMul(usdProfit, currency.rate)
    IN  [symbol |-> currency.symbol,
         prefix |-> IF JsGe(converted, Num(0)) THEN "+" ELSE "-",
         amount |-> ToFixed(MathAbs(converted), 2)]

-----------------------------------------------------------------------------
(* ProbabilityBox: processItems, calculateStats, renderStats, render *)

\* { ...item, realPrice }: the phase is not passed to getRealPrice
\* a variant that puts the real price, when there is one, in place of the site price
WithRealPriceOverwriting(P, item) ==
    [weaponName |-> item.weaponName, skinName |-> item.skinName, wearFull |-> item.wearFull,
     isStattrak |-> item.isStattrak, marketHashName |-> item.marketHashName,
     phase |-> item.phase,
     price |-> IF getRealPrice(P, item.weaponName, item.skinName, item.wearFull,
                               item.isStattrak, item.marketHashName, NoPhase) = Null
               THEN item.price
               ELSE getRealPrice(P, item.weaponName, item.skinName, item.wearFull,
                                 item.isStattrak, item.marketHashName, NoPhase).n,
     odds |-> item.odds,
     realPrice |-> getRealPrice(P, item.weaponName, item.skinName, item.wearFull,
                                item.isStattrak, item.marketHashName, NoPhase)]

WithRealPrice(P, item) ==
    [weaponName |-> item.weaponName, skinName |-> item.skinName, wearFull |-> item.wearFull,
     isStattrak |-> item.isStattrak, marketHashName |-> item.marketHashName,
     phase |-> item.phase, price |-> item.price, odds |-> item.odds,
     realPrice |-> getRealPrice(P, item.weaponName, item.skinName, item.wearFull,
                                item.isStattrak, item.marketHashName, NoPhase)]

\* this.items after processItems
processItems(P, cd) == [i \in 1..Len(cd.items) |-> WithRealPrice(P, cd.items[i])]

\* one step of items.sort((a, b) => b.price - a.price), which is stable: the
\* item goes behind the items of the same or a higher price
RECURSIVE InsertByPrice(_, _)
InsertByPrice(sorted, item) ==
    IF sorted = <<>> THEN <<item>>
    ELSE IF Head(sorted).price >= item.price
    THEN <<Head(sorted)>> \o InsertByPrice(Tail(sorted), item)
    ELSE <<item>> \o sorted

RECURSIVE SortByPriceDesc(_)
SortByPriceDesc(its) ==
    IF its = <<>> THEN <<>>
    ELSE InsertByPrice(SortByPriceDesc(SubSeq(its, 1, Len(its) - 1)), its[Len(its)])

\* renderTable(): a copy of this.items is sorted and its rows are written to
\* the container; items is this.items after the call
renderTable(its) == [items |-> its, rows |-> SortByPriceDesc(its)]

\* v.price, and v.realPrice !== null ? v.realPrice : v.price
SitePrice(v) == Num(v.price)
\* a variant that takes a real price of 0 for a missing one
RealOrSitePriceFalsy(v) == IF v.realPrice # Null /\ v.realPrice # Num(0) THEN v.realPrice ELSE Num(v.price)

RealOrSitePrice(v) == IF v.realPrice # Null THEN v.realPrice ELSE Num(v.price)
PriceIn(v, real) == IF real THEN RealOrSitePrice(v) ELSE SitePrice(v)

\* items.reduce((sum, v) => sum + (price * v.odds / 100), 0), from sum on
RECURSIVE ReduceExpectedValue(_, _, _)
ReduceExpectedValue(its, sum, real) ==
    IF its = <<>> THEN sum
    ELSE ReduceExpectedValue(Tail(its),
             JsAdd(sum, JsDiv(JsMul(PriceIn(Head(its), real), Num(Head(its).odds)), Num(100))),
             real)

\* the total of the odds, as a number
RECURSIVE TotalOdds(_)
TotalOdds(its) == IF its = <<>> THEN 0 ELSE Head(its).odds + TotalOdds(Tail(its))

\* a variant that renormalizes the odds to sum to 100
ExpectedValueRenormalized(its, real) ==
    JsDiv(JsMul(ReduceExpectedValue(its, Num(0), real), Num(100)), Num(TotalOdds(its)))

ExpectedValue(its, real) == ReduceExpectedValue(its, Num(0), real)

\* a variant without the casePrice > 0 guard
ProfitabilityUnguarded(expectedValue, casePrice) ==
    JsMul(JsDiv(expectedValue, Num(casePrice)), Num(100))

\* casePrice > 0 ? (expectedValue / casePrice * 100) : 0
Profitability(expectedValue, casePrice) ==
    IF casePrice > 0
    THEN JsMul(JsDiv(expectedValue, Num(casePrice)), Num(100))
    ELSE Num(0)

\* items.filter(v => price > casePrice).reduce((sum, v) => sum + v.odds, 0), from sum on
RECURSIVE ReduceProfitChance(_, _, _, _)
ReduceProfitChance(its, casePrice, sum, real) ==
    IF its = <<>> THEN sum
    ELSE ReduceProfitChance(Tail(its), casePrice,
             IF JsGt(PriceIn(Head(its), real), Num(casePrice))
             THEN JsAdd(sum, Num(Head(its).odds)) ELSE sum,
             real)

\* a variant that counts an item whose price equals the case price
RECURSIVE ProfitChanceWithTies(_, _, _)
ProfitChanceWithTies(its, casePrice, real) ==
    IF its = <<>> THEN Num(0)
    ELSE JsAdd(IF JsGe(PriceIn(Head(its), real), Num(casePrice))
               THEN Num(Head(its).odds) ELSE Num(0),
               ProfitChanceWithTies(Tail(its), casePrice, real))

ProfitChance(its, casePrice, real) == ReduceProfitChance(its, casePrice, Num(0), real)

\* items.map(v => price)
PriceList(its, real) == [i \in 1..Len(its) |-> PriceIn(its[i], real)]

\* casePrice > 0 ? maxPrice - casePrice : maxPrice
MaxProfit(its, casePrice, real) ==
    LET maxPrice == MathMax(PriceList(its, real))
    IN  IF casePrice > 0 THEN JsSub(maxPrice, Num(casePrice)) ELSE maxPrice

\* a variant that subtracts the case price from the lowest price
MaxLossReversed(its, casePrice, real) ==
    IF casePrice > 0
    THEN JsSub(MathMin(PriceList(its, real)), Num(casePrice))
    ELSE MathMin(PriceList(its, real))

\* casePrice > 0 ? casePrice - minPrice : minPrice
MaxLoss(its, casePrice, real) ==
    LET minPrice == MathMin(PriceList(its, real))
    IN  IF casePrice > 0 THEN JsSub(Num(casePrice), minPrice) ELSE minPrice

\* realStats = {}: every field of it reads undefined
NoRealStats ==
    [expectedValue |-> Undefined, profitability |-> Undefined, profitChance |-> Undefined,
     maxProfit |-> Undefined, maxLoss |-> Undefined]

calculateStats(its, casePrice) ==
    LET hasRealPrices == \E i \in 1..Len(its) : its[i].realPrice # Null
    IN  [expectedValue |-> ExpectedValue(its, FALSE),
         profitability |-> Profitability(ExpectedValue(its, FALSE), casePrice),
         profitChance |-> ProfitChance(its, casePrice, FALSE),
         maxProfit |-> MaxProfit(its, casePrice, FALSE),
         maxLoss |-> MaxLoss(its, casePrice, FALSE),
         hasRealPrices |-> hasRealPrices,
         real |-> IF hasRealPrices
                  THEN [expectedValue |-> ExpectedValue(its, TRUE),
                        profitability |-> Profitability(ExpectedValue(its, TRUE), casePrice),
                        profitChance |-> ProfitChance(its, casePrice, TRUE),
                        maxProfit |-> MaxProfit(its, casePrice, TRUE),
                        maxLoss |-> MaxLoss(its, casePrice, TRUE)]
                  ELSE NoRealStats]

\* the text of a card: 'N/A', a toFixed number followed by '%', or a formatted amount
NA == [symbol |-> "", prefix |-> "N/A", amount |-> ToFixed(Num(0), 0)]
NoSub == [symbol |-> "", prefix |-> "none", amount |-> ToFixed(Num(0), 0)]
Percent(x, digits) == [symbol |-> "%", prefix |-> "", amount |-> ToFixed(x, digits)]

\* addRealSub(el, show, value): the sub-value of a card, NoSub when it is not shown
addRealSub(show, value) == IF show THEN value ELSE NoSub

renderStats(st, casePrice, currency) ==
    [profitability |->
        [class |-> IF JsGt(Num(86), st.profitability) THEN "negative"
                   ELSE IF JsGe(Num(90), st.profitability) THEN "white" ELSE "",
         text |-> IF casePrice > 0 THEN Percent(st.profitability, 1) ELSE NA,
         sub |-> addRealSub(st.hasRealPrices /\ casePrice > 0, Percent(st.real.profitability, 1))],
     expectedValue |->
        [class |-> "",
         text |-> formatPrice(st.expectedValue, currency),
         sub |-> addRealSub(st.hasRealPrices, formatPrice(st.real.expectedValue, currency))],
     profitChance |->
        [class |-> "",
         text |-> Percent(st.profitChance, 2),
         sub |-> addRealSub(st.hasRealPrices, Percent(st.real.profitChance, 2))],
     maxProfit |->
        [class |-> "",
         text |-> formatProfit(st.maxProfit, currency),
         sub |-> addRealSub(st.hasRealPrices /\ casePrice > 0,
                            formatProfit(st.real.maxProfit, currency))],
     maxLoss |->
        [class |-> "",
         text |-> formatProfit(JsMul(Num(-1), st.maxLoss), currency),
         sub |-> addRealSub(st.hasRealPrices /\ casePrice > 0,
                            formatProfit(JsMul(Num(-1), st.real.maxLoss), currency))]]

-----------------------------------------------------------------------------
(* The adapters: building and parsing market hash names *)

\* HellcaseParser.buildMarketHashName
Hellcase_buildMarketHashName(weaponName, skinName, exterior, isStattrak, phase) ==
    LET star == StartsWith(weaponName, StarCanon)
        starPrefix == IF star THEN StarCanon ELSE <<>>
        cleanWeaponName == IF star THEN Substring(weaponName, 2) ELSE weaponName
        stattrakPrefix == IF isStattrak THEN StatTrakTM ELSE <<>>
        base == starPrefix \o stattrakPrefix \o cleanWeaponName \o Sep \o skinName
        withWear == IF exterior # <<>> THEN base \o <<" ", "(">> \o exterior \o <<")">> ELSE base
    IN  IF phase # NoPhase THEN withWear \o <<" ", phase>> ELSE withWear

\* CSGOEmpireParser.buildMarketHashName(weaponName, skinName, exterior, isStattrak, phase)
CSGOEmpire_buildMarketHashName(weaponName, skinName, exterior, isStattrak, phase) ==
    LET star == StartsWith(weaponName, StarCanon)
        starPrefix == IF star THEN StarCanon ELSE <<>>
        cleanWeaponName == IF star THEN Substring(weaponName, 2) ELSE weaponName
        stattrakPrefix == IF isStattrak THEN StatTrakTM ELSE <<>>
        base == starPrefix \o stattrakPrefix \o cleanWeaponName \o Sep \o skinName
        withWear == IF exterior # <<>> THEN base \o <<" ", "(">> \o exterior \o <<")">> ELSE base
    IN  IF phase # NoPhase THEN withWear \o <<" ", phase>> ELSE withWear

\* CSGO500Parser.buildMarketHashName(weaponName, skinName, exterior, isStattrak, phase):
\* a vanilla item (no skin name) gets neither separator nor wear nor phase
CSGO500_buildMarketHashName(weaponName, skinName, exterior, isStattrak, phase) ==
    LET star == StartsWith(weaponName, StarCanon)
        starPrefix == IF star THEN StarCanon ELSE <<>>
        cleanWeaponName == IF star THEN Substring(weaponName, 2) ELSE weaponName
        stattrakPrefix == IF isStattrak THEN StatTrakTM ELSE <<>>
        base == starPrefix \o stattrakPrefix \o cleanWeaponName \o Sep \o skinName
        withWear == IF exterior # <<>> THEN base \o <<" ", "(">> \o exterior \o <<")">> ELSE base
    IN  IF skinName = <<>> THEN starPrefix \o stattrakPrefix \o cleanWeaponName
        ELSE IF phase # NoPhase THEN withWear \o <<" ", phase>> ELSE withWear

\* the names of phasePatterns, in their order
PhaseNames == <<"Phase 1", "Phase 2", "Phase 3", "Phase 4", "Ruby", "Sapphire", "Emerald", "Black Pearl">>

\* extractPhase(name): the first phase label found anywhere in a name that
\* contains 'Doppler'
extractPhase(name) ==
    IF ~Includes(name, <<"Doppler">>) THEN NoPhase
    ELSE LET hits == {i \in 1..Len(PhaseNames) : Includes(name, <<PhaseNames[i]>>)}
         IN  IF hits = {} THEN NoPhase
             ELSE PhaseNames[CHOOSE i \in hits : \A j \in hits : i <= j]

\* getWearShort(wearFull): wearMap[wearFull] || ''
getWearShort(wearFull) ==
    IF wearFull = <<"Factory New">> THEN "FN"
    ELSE IF wearFull = <<"Minimal Wear">> THEN "MW"
    ELSE IF wearFull = <<"Field-Tested">> THEN "FT"
    ELSE IF wearFull = <<"Well-Worn">> THEN "WW"
    ELSE IF wearFull = <<"Battle-Scarred">> THEN "BS"
    ELSE ""

\* getWearFull(wearShort): wearMap[wearShort] || ''
getWearFull(wearShort) ==
    IF wearShort = "FN" THEN <<"Factory New">>
    ELSE IF wearShort = "MW" THEN <<"Minimal Wear">>
    ELSE IF wearShort = "FT" THEN <<"Field-Tested">>
    ELSE IF wearShort = "WW" THEN <<"Well-Worn">>
    ELSE IF wearShort = "BS" THEN <<"Battle-Scarred">>
    ELSE <<>>

\* name.match(/\((Factory New|...|Battle-Scarred)\)$/): the wear name, <<>> without a match
WearMatch(name) ==
    LET n == Len(name)
    IN  IF n >= 3 /\ name[n - 2] = "(" /\ name[n - 1] \in WearNames /\ name[n] = ")"
        THEN <<name[n - 1]>>
        ELSE <<>>

\* name.replace(new RegExp(`\\s*-?\\s*${phase}$`, 'i'), ''): the label at the end of
\* the name goes, with the spaces and the one hyphen before it
StripPhaseAtEnd(name, phase) ==
    IF name = <<>> \/ name[Len(name)] # phase THEN name
    ELSE LET a == TrimEnd(SubSeq(name, 1, Len(name) - 1))
         IN  IF a # <<>> /\ a[Len(a)] = "-" THEN TrimEnd(SubSeq(a, 1, Len(a) - 1)) ELSE a

\* parseItemName, its last part: the weapon and the skin are split at ' | '
SplitWeaponSkin(name, wearFull, isStattrak, isSouvenir, phase) ==
    LET sticker == StartsWith(name, <<"Sticker", " ", "|">>)
        star == StartsWith(name, StarCanon)
        weaponName == IF sticker THEN <<"Sticker">>
                      ELSE IF star THEN StarCanon \o SplitPart0(Substring(name, 2))
                      ELSE SplitPart0(name)
        skinName == IF sticker THEN ReplaceFirst(name, <<"Sticker", " ", "|", " ">>, <<>>)
                    ELSE IF star THEN SplitPart1(Substring(name, 2))
                    ELSE SplitPart1(name)
    IN  [weaponName |-> Trim(weaponName), skinName |-> Trim(skinName), wearFull |-> wearFull,
         wearShort |-> getWearShort(wearFull), isStattrak |-> isStattrak,
         isSouvenir |-> isSouvenir, phase |-> phase]

\* parseItemName from the phase on: the phase found in the name is cut off its end
ParsePhase(name, wearFull, isStattrak, isSouvenir, phase) ==
    SplitWeaponSkin(IF phase # NoPhase THEN Trim(StripPhaseAtEnd(name, phase)) ELSE name,
                    wearFull, isStattrak, isSouvenir, phase)

\* parseItemName from the wear on: the wear at the end of the name is taken out
ParseWear(name, wearFull, isStattrak, isSouvenir) ==
    IF wearFull # <<>>
    THEN ParsePhase(Trim(ReplaceFirst(name, <<"(">> \o wearFull \o <<")">>, <<>>)), wearFull,
                    isStattrak, isSouvenir,
                    extractPhase(Trim(ReplaceFirst(name, <<"(">> \o wearFull \o <<")">>, <<>>))))
    ELSE ParsePhase(name, wearFull, isStattrak, isSouvenir, extractPhase(name))

\* parseItemName from Souvenir on
ParseSouvenir(name, isStattrak) ==
    IF Includes(name, <<"Souvenir">>)
    THEN ParseWear(ReplaceFirst(name, <<"Souvenir", " ">>, <<>>),
                   WearMatch(ReplaceFirst(name, <<"Souvenir", " ">>, <<>>)), isStattrak, TRUE)
    ELSE ParseWear(name, WearMatch(name), isStattrak, FALSE)

\* parseItemName(fullName) of ClashGGParser and of CSGOSkinsParser (the same text)
parseItemName(fullName) ==
    IF Includes(fullName, <<"StatTrak">>)
    THEN ParseSouvenir(ReplaceFirst(ReplaceFirst(fullName, StatTrakTM, <<>>),
                                    <<"StatTrak", " ">>, <<>>), TRUE)
    ELSE ParseSouvenir(fullName, FALSE)

\* the knifePatterns and glovePatterns of isKnifeOrGloves
KnifeOrGloveWords ==
    {"Bayonet", "Karambit", "Butterfly Knife", "Huntsman Knife", "Flip Knife", "Gut Knife",
     "Falchion Knife", "Shadow Daggers", "Bowie Knife", "Navaja Knife", "Stiletto Knife",
     "Talon Knife", "Ursus Knife", "Classic Knife", "Paracord Knife", "Survival Knife",
     "Nomad Knife", "Skeleton Knife", "Kukri Knife", "Hand Wraps", "Driver Gloves",
     "Moto Gloves", "Specialist Gloves", "Sport Gloves", "Hydra Gloves",
     "Broken Fang Gloves", "Bloodhound Gloves"}

isKnifeOrGloves(name) == \E i \in 1..Len(name) : name[i] \in KnifeOrGloveWords

\* CSGOSkinsParser.parseItem after parseItemName: the wear, the StatTrak flag and
\* the market hash name of the item
CSGOSkins_itemOf(item, p, wear, needsStarPrefix) ==
    LET wearFull == IF getWearFull(wear) # <<>> THEN getWearFull(wear) ELSE p.wearFull
        isStattrak == item.isStattrak \/ p.isStattrak
        baseName == IF needsStarPrefix THEN StarCanon \o item.name ELSE item.name
        withStattrak == IF isStattrak THEN StatTrakTM \o baseName ELSE baseName
        marketHashName == IF wearFull # <<>> /\ ~Includes(withStattrak, <<"(">>)
                          THEN withStattrak \o <<" ", "(">> \o wearFull \o <<")">>
                          ELSE withStattrak
        weaponName == IF needsStarPrefix /\ ~StartsWith(p.weaponName, <<"U+2605">>)
                      THEN StarCanon \o p.weaponName
                      ELSE p.weaponName
    IN  [weaponName |-> weaponName, skinName |-> p.skinName, wear |-> wear,
         wearFull |-> wearFull, isStattrak |-> isStattrak, isSouvenir |-> p.isSouvenir,
         marketHashName |-> marketHashName, phase |-> p.phase]

\* item.wear || parsed.wearShort
CSGOSkins_wearOf(item, p) ==
    CSGOSkins_itemOf(item, p, IF item.wear # "" THEN item.wear ELSE p.wearShort,
                     isKnifeOrGloves(item.name) /\ ~StartsWith(item.name, <<"U+2605">>))

\* CSGOSkinsParser.parseItem(item), item being the raw item of the scraper:
\* [name, wear (short code or ''), isStattrak]
CSGOSkins_parseItem(item) == CSGOSkins_wearOf(item, parseItemName(item.name))

-----------------------------------------------------------------------------
(* The inputs of the statistics pipeline *)

MaxItems == 2

\* market hash names, as the adapters deliver them
KnifeName == <<"U+2605", " ", "Karambit", " ", "|", " ", "Doppler", " ", "(", "Factory New", ")">>
RifleName == <<"AK-47", " ", "|", " ", "Redline", " ", "(", "Field-Tested", ")">>

Knife(price, odds) ==
    [weaponName |-> <<"U+2605", " ", "Karambit">>, skinName |-> <<"Doppler">>,
     wearFull |-> <<"Factory New">>, isStattrak |-> FALSE, marketHashName |-> KnifeName,
     phase |-> NoPhase, price |-> price, odds |-> odds]

Rifle(price, odds) ==
    [weaponName |-> <<"AK-47">>, skinName |-> <<"Redline">>,
     wearFull |-> <<"Field-Tested">>, isStattrak |-> FALSE, marketHashName |-> RifleName,
     phase |-> NoPhase, price |-> price, odds |-> odds]

\* site prices in cents and odds in percent (the odds of a case need not sum to 100)
ItemPrices == {100, 1000}
ItemOdds == {30, 70}
CasePrices == {0, 250, 1000}

RawItems == {Knife(p, o) : p \in ItemPrices, o \in ItemOdds}
                \cup {Rifle(p, o) : p \in ItemPrices, o \in ItemOdds}

ItemLists == UNION {[1..n -> RawItems] : n \in 0..MaxItems}

\* what adapter.fetchCaseData() resolves to: a case, or Null
CaseDatas == {[casePrice |-> cp, items |-> its] : cp \in CasePrices, its \in ItemLists}

\* what adapter.fetchUserCurrency() resolves to: a currency, or Null
Euro == [name |-> "EUR", rate |-> Norm(9, 10), symbol |-> "EUR"]
Currencies == {defaultCurrency, Euro}

\* the snapshots PricingService.prices may hold when the view is joined
PlainEntry(price) == Entry(price, FALSE, <<>>)
StatsSnapshots ==
    {Null,
     Snapshot(KnifeName :> PlainEntry(Num(500))),
     Snapshot(KnifeName :> PlainEntry(Num(0))),
     Snapshot((KnifeName :> PlainEntry(Num(0))) @@ (RifleName :> PlainEntry(Num(1200)))),
     Snapshot((KnifeName :> PlainEntry(Null)) @@ (RifleName :> PlainEntry(Num(200))))}

StatsIdle ==
    /\ caseData = Null
    /\ items = <<>>
    /\ stats = Null
    /\ cards = Null
    /\ userCurrency = defaultCurrency
    /\ spc = "loading"
    /\ pend = Null
    /\ testResult = Null
    /\ nav = Null
    /\ promo = Null
    /\ norm = Null

-----------------------------------------------------------------------------
(* ProbabilityBox.loadData, from the point where the three fetches are joined *)

\* a variant that computes the statistics of an empty item list too
renderUnguarded(its, cd, currency) ==
    /\ stats' = calculateStats(its, cd.casePrice)
    /\ cards' = renderStats(stats', cd.casePrice, currency)
    /\ spc' = "rendered"

\* render(): this.items is already set
render(its, cd, currency) ==
    IF Len(its) = 0
    THEN /\ spc' = "errorNoItems"
         /\ UNCHANGED <<stats, cards>>
    ELSE /\ stats' = calculateStats(its, cd.casePrice)
         /\ cards' = renderStats(stats', cd.casePrice, currency)
         /\ spc' = "rendered"

CACHE_DURATION == 6 * 60 * 60 * 1000

\* the two callers of fetchPrices that may overlap
Loaders == {1, 2}

\* the clock when the page opens
StartTime == 2 * CACHE_DURATION

\* a fetchPrices call that has not started
IdleCall ==
    [pc |-> "idle", data |-> Null, ts |-> 0, sentAt |-> 0, fetched |-> Null,
     wts |-> 0, result |-> Null, how |-> "none", age |-> 0, next |-> FALSE]

\* clearCache has not been called
NoClear == [pc |-> "idle", held |-> {}, next |-> FALSE]

\* nothing is stored, nobody loads
LoadIdle ==
    /\ storage = [data |-> Null, time |-> 0]
    /\ now = StartTime
    /\ ticks = 0
    /\ pricesTime = 0
    /\ ld = [p \in Loaders |-> IdleCall]
    /\ cc = NoClear

\* no name has been built
NamesIdle ==
    /\ nameIn = Null
    /\ built = Null
    /\ parsed = Null

\* loadData() after Promise.all resolved to caseData cd and the currency
LoadDataJoined(cd, currency) ==
    IF cd = Null
    THEN /\ spc' = "errorCaseData"
         /\ UNCHANGED <<caseData, items, stats, cards, userCurrency>>
    ELSE /\ caseData' = cd
         /\ userCurrency' = (IF currency = Null THEN defaultCurrency ELSE currency)
         /\ items' = renderTable(processItems(prices, cd)).items
         /\ render(items', cd, userCurrency')

\* loadData() of a view that shows the loading text
LoadData(cd, currency) ==
    /\ spc = "loading"
    /\ LoadDataJoined(cd, currency)
    /\ UNCHANGED <<prices, lookup, nameVars, loadVars, testResult, nav, promo, norm, pend>>

InitStats ==
    /\ StatsIdle
    /\ NamesIdle
    /\ LoadIdle
    /\ prices \in StatsSnapshots
    /\ lookup = Null

NextStats ==
    \E cd \in CaseDatas \cup {Null}, currency \in Currencies \cup {Null} : LoadData(cd, currency)

SpecStats == InitStats /\ [][NextStats]_vars

-----------------------------------------------------------------------------
(* Claims about the statistics *)

\* the sum over the items of price * odds, in cents * percent, per series
RECURSIVE SumPriceOdds(_, _)
SumPriceOdds(its, real) ==
    IF its = <<>> THEN 0
    ELSE (IF real /\ its[1].realPrice # Null THEN its[1].realPrice.n ELSE its[1].price)
             * its[1].odds + SumPriceOdds(Tail(its), real)

ScenarioCase == [casePrice |-> 250, items |-> <<Knife(100, 70), Rifle(1000, 30)>>]

\* C1: in every rendered view the site-series expectedValue is the sum over all
\* items of price * odds / 100 with the odds as given (100 * expectedValue is
\* the sum of price * odds), and the scenario case yields 3.70
C1_ExpectedValueIsPlainSum ==
    spc = "rendered" =>
        /\ IsNum(stats.expectedValue)
        /\ stats.expectedValue.n * 100 = SumPriceOdds(caseData.items, FALSE) * stats.expectedValue.d
        /\ (caseData = ScenarioCase => stats.expectedValue = Num(370))

\* C1 witness: a rendered case of two items whose odds do not sum to 100
C1_Witness ==
    /\ spc = "rendered"
    /\ Len(items) = 2
    /\ items[1].odds + items[2].odds = 140
    /\ stats.expectedValue = Num(770)

\* C2 as stated: profitability is expectedValue / casePrice * 100 when
\* casePrice > 0, and undefined (shown as N/A) when casePrice = 0
C2_ProfitabilityUndefinedAtZero ==
    spc = "rendered" =>
        /\ caseData.casePrice > 0 =>
               /\ IsNum(stats.profitability)
               /\ stats.profitability.n * caseData.casePrice
                      = SumPriceOdds(caseData.items, FALSE) * stats.profitability.d
        /\ caseData.casePrice = 0 =>
               /\ stats.profitability = Undefined
               /\ cards.profitability.text = NA

\* C2 amended: profitability is always a finite number, in both series:
\* expectedValue / casePrice * 100 when casePrice > 0, and the number 0 when
\* casePrice = 0, where the card shows N/A and no real sub-value
C2_ProfitabilityZeroShownNA ==
    spc = "rendered" =>
        /\ IsNum(stats.profitability)
        /\ stats.hasRealPrices => IsNum(stats.real.profitability)
        /\ caseData.casePrice > 0 =>
               /\ stats.profitability.n * caseData.casePrice
                      = SumPriceOdds(caseData.items, FALSE) * stats.profitability.d
               /\ stats.hasRealPrices =>
                      stats.real.profitability.n * caseData.casePrice
                          = SumPriceOdds(items, TRUE) * stats.real.profitability.d
               /\ cards.profitability.text = Percent(stats.profitability, 1)
        /\ caseData.casePrice = 0 =>
               /\ stats.profitability = Num(0)
               /\ stats.hasRealPrices => stats.real.profitability = Num(0)
               /\ cards.profitability.text = NA
               /\ cards.profitability.sub = NoSub
        /\ (caseData = ScenarioCase => stats.profitability = Num(148))

\* C2 witness: a rendered case of price 0 with a positive expected value
C2_Witness ==
    /\ spc = "rendered"
    /\ caseData.casePrice = 0
    /\ JsGt(stats.expectedValue, Num(0))
    /\ stats.hasRealPrices
    /\ cards.profitability.text = NA

\* the price an item contributes to a series, in cents
PriceOf(v, real) == IF real /\ v.realPrice # Null THEN v.realPrice.n ELSE v.price

\* the statistics of a series: the site series, or the real series
SeriesOf(st, real) == IF real THEN st.real ELSE st

\* the series a rendered view has: the site series always, the real series when
\* some item has a real price
SeriesShown == IF stats.hasRealPrices THEN {FALSE, TRUE} ELSE {FALSE}

\* C11: in the real series every item contributes one price, its real price when
\* that is not null (0 included) and its site price otherwise: the real
\* expectedValue is the sum over all the items of the case
C11_RealSeriesFallback ==
    (spc = "rendered" /\ stats.hasRealPrices) =>
        /\ Len(items) = Len(caseData.items)
        /\ Len(PriceList(items, TRUE)) = Len(caseData.items)
        /\ \A i \in 1..Len(items) :
               PriceList(items, TRUE)[i] =
                   (IF items[i].realPrice # Null THEN items[i].realPrice
                    ELSE Num(caseData.items[i].price))
        /\ IsNum(stats.real.expectedValue)
        /\ stats.real.expectedValue.n * 100 = SumPriceOdds(items, TRUE) * stats.real.expectedValue.d

\* C11 witness: one item with the real price 0, one without a real price
C11_Witness ==
    /\ spc = "rendered"
    /\ Len(items) = 2
    /\ items[1].realPrice = Num(0)
    /\ items[2].realPrice = Null
    /\ items[1].price = 1000
    /\ stats.real.expectedValue = Num(300)

\* the sum of the odds of the items priced above the case price
RECURSIVE SumOddsAbove(_, _, _)
SumOddsAbove(its, casePrice, real) ==
    IF its = <<>> THEN 0
    ELSE (IF PriceOf(its[1], real) > casePrice THEN its[1].odds ELSE 0)
             + SumOddsAbove(Tail(its), casePrice, real)

\* C12: profitChance is the sum of the odds of the items whose price is strictly
\* greater than casePrice, in each series
C12_ProfitChanceStrict ==
    spc = "rendered" =>
        \A real \in SeriesShown :
            SeriesOf(stats, real).profitChance = Num(SumOddsAbove(items, caseData.casePrice, real))

\* C12 witness: both items are priced exactly at the case price, and one of them
\* has a real price above it
C12_Witness ==
    /\ spc = "rendered"
    /\ caseData.casePrice = 1000
    /\ Len(items) = 2
    /\ items[1].price = 1000 /\ items[1].odds = 30
    /\ items[2].price = 1000 /\ items[2].odds = 70
    /\ items[2].realPrice = Num(1200)
    /\ stats.profitChance = Num(0)
    /\ stats.real.profitChance = Num(70)

\* the highest and the lowest price of a series, in cents
HighestPrice(its, real) ==
    CHOOSE x \in {PriceOf(its[i], real) : i \in 1..Len(its)} :
        \A i \in 1..Len(its) : PriceOf(its[i], real) <= x
LowestPrice(its, real) ==
    CHOOSE x \in {PriceOf(its[i], real) : i \in 1..Len(its)} :
        \A i \in 1..Len(its) : PriceOf(its[i], real) >= x

\* C13: with casePrice > 0 maxProfit is the highest price minus casePrice and
\* maxLoss is casePrice minus the lowest price; with casePrice 0 they are the
\* highest and the lowest price
C13_MaxProfitMaxLoss ==
    spc = "rendered" =>
        \A real \in SeriesShown :
            /\ SeriesOf(stats, real).maxProfit =
                   Num(HighestPrice(items, real)
                           - (IF caseData.casePrice > 0 THEN caseData.casePrice ELSE 0))
            /\ SeriesOf(stats, real).maxLoss =
                   (IF caseData.casePrice > 0
                    THEN Num(caseData.casePrice - LowestPrice(items, real))
                    ELSE Num(LowestPrice(items, real)))

\* C13 witness: a case dearer than its cheapest item and cheaper than its best
C13_Witness ==
    /\ spc = "rendered"
    /\ caseData.casePrice = 250
    /\ stats.maxProfit = Num(750)
    /\ stats.maxLoss = Num(150)
    /\ stats.hasRealPrices
    /\ stats.real.maxLoss = Num(250)

\* C14: the statistics of a case without items are never computed: the view shows
\* an error, no statistic exists, and no statistic of any view is NaN or infinite
C14_EmptyCaseNoInfinity ==
    /\ (caseData # Null /\ Len(caseData.items) = 0) =>
           /\ spc = "errorNoItems"
           /\ stats = Null
           /\ cards = Null
    /\ spc = "rendered" =>
           \A real \in SeriesShown :
               /\ IsNum(SeriesOf(stats, real).expectedValue)
               /\ IsNum(SeriesOf(stats, real).profitability)
               /\ IsNum(SeriesOf(stats, real).profitChance)
               /\ IsNum(SeriesOf(stats, real).maxProfit)
               /\ IsNum(SeriesOf(stats, real).maxLoss)

\* C14 witness: a case without items has been loaded
C14_Witness ==
    /\ caseData # Null
    /\ Len(caseData.items) = 0
    /\ caseData.casePrice = 250
    /\ spc = "errorNoItems"

-----------------------------------------------------------------------------
(* PricingService.getRealPrice over the snapshots the price source may deliver *)

KnifeRubyName == KnifeName \o <<" ", "Ruby">>
KnifePhase2Name == KnifeName \o <<" ", "Phase 2">>

\* doppler sub-tables: none, an empty one, and two with phase prices
DopplerTables ==
    {[has |-> FALSE, tbl |-> <<>>],
     [has |-> TRUE, tbl |-> <<>>],
     [has |-> TRUE, tbl |-> ("Ruby" :> Num(0))],
     [has |-> TRUE, tbl |-> ("Ruby" :> Null) @@ ("Phase 2" :> Num(700))]}

KnifeEntries == {[price |-> p, doppler |-> dp] : p \in {Null, Num(0), Num(500)}, dp \in DopplerTables}
KnifeRubyEntries == {PlainEntry(Num(0)), PlainEntry(Num(900))}

\* a snapshot: the JSON object with the entries given (Null: the key is absent)
Table(knife, knifeRuby) ==
    Snapshot((IF knife = Null THEN <<>> ELSE (KnifeName :> knife))
                 @@ (IF knifeRuby = Null THEN <<>> ELSE (KnifeRubyName :> knifeRuby)))

LookupSnapshots ==
    {Null} \cup {Table(k, r) : k \in KnifeEntries \cup {Null}, r \in KnifeRubyEntries \cup {Null}}

\* the marketHashName argument: a name, or <<>> when it is not given
LookupNames == {KnifeName, KnifeRubyName, KnifePhase2Name, RifleName, <<>>}
LookupPhases == {NoPhase, "Ruby", "Phase 2"}

\* one call getRealPrice(weaponName, skinName, exterior, isStattrak, marketHashName, phase)
\* with the fields of item
GetRealPrice(item, marketHashName, phase) ==
    /\ lookup' = [marketHashName |-> marketHashName,
                  builtName |-> getMarketHashName(item.weaponName, item.skinName,
                                                  item.wearFull, item.isStattrak),
                  phase |-> phase,
                  result |-> getRealPrice(prices, item.weaponName, item.skinName, item.wearFull,
                                          item.isStattrak, marketHashName, phase)]
    /\ UNCHANGED <<prices, statsVars, nameVars, loadVars, testResult, nav, promo, norm>>

InitLookup ==
    /\ StatsIdle
    /\ NamesIdle
    /\ LoadIdle
    /\ prices \in LookupSnapshots
    /\ lookup = Null

NextLookup ==
    \E item \in {Knife(100, 30), Rifle(100, 30)}, name \in LookupNames, phase \in LookupPhases :
        GetRealPrice(item, name, phase)

SpecLookup == InitLookup /\ [][NextLookup]_vars

-----------------------------------------------------------------------------
(* Claims about the lookup *)

\* the name a call asked for: the marketHashName argument, or the built name
AskedName == IF lookup.marketHashName # <<>> THEN lookup.marketHashName ELSE lookup.builtName

\* the key a call resolves: the name asked for, without its trailing phase
\* suffix when a phase is supplied
ResolvedKey ==
    IF lookup.phase # NoPhase THEN stripPhaseFromHashName(AskedName) ELSE AskedName

\* no price can be resolved under key: no snapshot, no entry, or a requested
\* phase that the entry's doppler sub-table does not price
Unknown(key) ==
    \/ prices = Null
    \/ key \notin DOMAIN prices.tbl
    \/ /\ prices.tbl[key].doppler.has
       /\ lookup.phase # NoPhase
       /\ \/ lookup.phase \notin DOMAIN prices.tbl[key].doppler.tbl
          \/ prices.tbl[key].doppler.tbl[lookup.phase] = Null

\* a price of 0 is stored for what the call asks under key
StoredZero(key) ==
    /\ prices # Null
    /\ key \in DOMAIN prices.tbl
    /\ IF prices.tbl[key].doppler.has /\ lookup.phase # NoPhase
       THEN /\ lookup.phase \in DOMAIN prices.tbl[key].doppler.tbl
            /\ prices.tbl[key].doppler.tbl[lookup.phase] = Num(0)
       ELSE prices.tbl[key].price = Num(0)

\* C3 as stated: the lookup returns null, never 0, for a name absent from the
\* snapshot, for a requested phase absent from the entry's doppler table and
\* without a snapshot; a stored price of 0 is returned as 0
C3_NullForAbsentName ==
    lookup # Null =>
        /\ Unknown(AskedName) => lookup.result = Null
        /\ StoredZero(AskedName) => lookup.result = Num(0)

\* C3 amended: the same with the name taken as the key the lookup resolves,
\* which is the name without its trailing phase suffix when a phase is supplied
C3_NullForUnresolvedKey ==
    lookup # Null =>
        /\ Unknown(ResolvedKey) => lookup.result = Null
        /\ StoredZero(ResolvedKey) => lookup.result = Num(0)

\* C3 witness: a phase the doppler table of the entry lacks is requested from
\* an entry whose flat price is 0, and the answer is null
C3_Witness ==
    /\ lookup # Null
    /\ prices # Null
    /\ lookup.phase = "Phase 2"
    /\ ResolvedKey \in DOMAIN prices.tbl
    /\ prices.tbl[ResolvedKey].doppler.has
    /\ "Phase 2" \notin DOMAIN prices.tbl[ResolvedKey].doppler.tbl
    /\ prices.tbl[ResolvedKey].price = Num(0)
    /\ lookup.result = Null

\* C4: on an entry with a doppler sub-table a lookup with a phase returns the
\* price stored for the phase; on an entry without one the phase is ignored
\* and the flat price is returned
C4_PhaseResolution ==
    (lookup # Null /\ prices # Null /\ ResolvedKey \in DOMAIN prices.tbl) =>
        LET entry == prices.tbl[ResolvedKey]
        IN  /\ (entry.doppler.has /\ lookup.phase # NoPhase
                    /\ lookup.phase \in DOMAIN entry.doppler.tbl)
                   => lookup.result = entry.doppler.tbl[lookup.phase]
            /\ ~entry.doppler.has => lookup.result = entry.price

\* C4 witness: a phase is supplied for an entry without a doppler sub-table
\* and the flat price comes back
C4_Witness ==
    /\ lookup # Null
    /\ prices # Null
    /\ lookup.phase = "Phase 2"
    /\ ResolvedKey \in DOMAIN prices.tbl
    /\ ~prices.tbl[ResolvedKey].doppler.has
    /\ lookup.result = Num(500)


-----------------------------------------------------------------------------
(* The adapters at work: an item's name is built, then parsed back *)

WeaponNames == {<<"AK-47">>, <<"Karambit">>, StarCanon \o <<"Karambit">>,
                <<"U+2606", " ", "Karambit">>, <<"*", "Karambit">>}
SkinNames == {<<>>, <<"Redline">>, <<"Doppler">>}
WearFulls == {<<>>, <<"Factory New">>}
Phases == {NoPhase, "Ruby", "Phase 2"}

\* the fields of an item; only a Doppler carries a phase
NameFields ==
    {f \in [weaponName : WeaponNames, skinName : SkinNames, wearFull : WearFulls,
             isStattrak : BOOLEAN, phase : Phases] :
        f.phase # NoPhase => f.skinName = <<"Doppler">>}

\* the name a site shows for the item: weapon | skin phase
SiteName(f) ==
    f.weaponName \o (IF f.skinName # <<>> THEN Sep \o f.skinName ELSE <<>>)
                 \o (IF f.phase # NoPhase THEN <<" ", f.phase>> ELSE <<>>)

Item(weaponName, skinName, wearFull, isStattrak, phase) ==
    [weaponName |-> weaponName, skinName |-> skinName, wearFull |-> wearFull,
     isStattrak |-> isStattrak, phase |-> phase]

\* getRealPrice builds the name of an item that brings none; it takes no phase
BuildPricing ==
    /\ built = Null
    /\ built' = [by |-> "pricing",
                 item |-> Item(nameIn.weaponName, nameIn.skinName, nameIn.wearFull,
                               nameIn.isStattrak, NoPhase),
                 marketHashName |-> getMarketHashName(nameIn.weaponName, nameIn.skinName,
                                                      nameIn.wearFull, nameIn.isStattrak)]
    /\ UNCHANGED <<nameIn, parsed, prices, lookup, statsVars, loadVars, testResult, nav, promo, norm>>

\* HellcaseParser builds the name from the fields and the phase
BuildHellcase ==
    /\ built = Null
    /\ built' = [by |-> "hellcase",
                 item |-> nameIn,
                 marketHashName |-> Hellcase_buildMarketHashName(nameIn.weaponName,
                                        nameIn.skinName, nameIn.wearFull, nameIn.isStattrak,
                                        nameIn.phase)]
    /\ UNCHANGED <<nameIn, parsed, prices, lookup, statsVars, loadVars, testResult, nav, promo, norm>>

\* CSGOSkinsParser.parseItem on the scraped item
BuildCSGOSkins ==
    /\ built = Null
    /\ LET r == CSGOSkins_parseItem([name |-> SiteName(nameIn),
                                     wear |-> getWearShort(nameIn.wearFull),
                                     isStattrak |-> nameIn.isStattrak])
       IN  built' = [by |-> "csgoskins",
                     item |-> Item(r.weaponName, r.skinName, r.wearFull, r.isStattrak, r.phase),
                     marketHashName |-> r.marketHashName]
    /\ UNCHANGED <<nameIn, parsed, prices, lookup, statsVars, loadVars, testResult, nav, promo, norm>>

\* CSGOEmpireParser builds the name from the fields and the phase
BuildCSGOEmpire ==
    /\ built = Null
    /\ built' = [by |-> "csgoempire",
                 item |-> nameIn,
                 marketHashName |-> CSGOEmpire_buildMarketHashName(nameIn.weaponName,
                                        nameIn.skinName, nameIn.wearFull, nameIn.isStattrak,
                                        nameIn.phase)]
    /\ UNCHANGED <<nameIn, parsed, prices, lookup, statsVars, loadVars, testResult, nav, promo, norm>>

\* CSGO500Parser builds the name from the fields and the phase
BuildCSGO500 ==
    /\ built = Null
    /\ built' = [by |-> "csgo500",
                 item |-> nameIn,
                 marketHashName |-> CSGO500_buildMarketHashName(nameIn.weaponName,
                                        nameIn.skinName, nameIn.wearFull, nameIn.isStattrak,
                                        nameIn.phase)]
    /\ UNCHANGED <<nameIn, parsed, prices, lookup, statsVars, loadVars, testResult, nav, promo, norm>>

\* ClashGGParser.parseItemName on the built name
ParseItemName ==
    /\ built # Null
    /\ parsed = Null
    /\ parsed' = parseItemName(built.marketHashName)
    /\ UNCHANGED <<nameIn, built, prices, lookup, statsVars, loadVars, testResult, nav, promo, norm>>

InitNames ==
    /\ StatsIdle
    /\ prices = Null
    /\ lookup = Null
    /\ nameIn \in NameFields
    /\ built = Null
    /\ parsed = Null
    /\ LoadIdle

NextNames ==
    \/ BuildPricing
    \/ BuildHellcase
    \/ BuildCSGOSkins
    \/ BuildCSGO500
    \/ BuildCSGOEmpire
    \/ ParseItemName

SpecNames == InitNames /\ [][NextNames]_vars

-----------------------------------------------------------------------------
(* Claims about the names *)

\* the weapon name without its leading star glyph
WeaponSegment(weaponName) == Substring(weaponName, StarMatchLen(weaponName))

\* every name of the shape [U+2605 ][StatTrak(TM) ]weaponName[ | skinName][ (wearFull)][ phase]
\* for the fields of an item, each optional segment present or not
NamesInOrder(it) ==
    {star \o st \o WeaponSegment(it.weaponName) \o sk \o w \o ph :
        star \in {<<>>, StarCanon},
        st \in {<<>>, StatTrakTM},
        sk \in {<<>>, Sep \o it.skinName},
        w \in {<<>>, <<" ", "(">> \o it.wearFull \o <<")">>},
        ph \in {<<>>, <<" ", it.phase>>}}

\* C5: the segments of a built market hash name come in the order
\* [star ][StatTrak(TM) ]weaponName[ | skinName][ (wearFull)][ phase]; the star
\* precedes StatTrak(TM)
C5_SegmentOrder ==
    built # Null => built.marketHashName \in NamesInOrder(built.item)

\* C6: parsing the name built for an item gives back the item's weaponName,
\* skinName, wear, isStattrak and phase
C6_RoundTrip ==
    (built # Null /\ parsed # Null) =>
        /\ parsed.weaponName = built.item.weaponName
        /\ parsed.skinName = built.item.skinName
        /\ parsed.wearFull = built.item.wearFull
        /\ parsed.isStattrak = built.item.isStattrak
        /\ parsed.phase = built.item.phase


-----------------------------------------------------------------------------
(* PricingService.fetchPrices and clearCache over CacheService                *)
(* Every await is a point where the other callers, clearCache and the clock   *)
(* may run: a chrome.storage operation, the answer to FETCH_URL and the code  *)
(* that continues after them are steps of their own.                          *)

MaxTicks == 2

\* the snapshot a former visit persisted, and the ones the price source serves
PersistedSnapshot == Snapshot(KnifeName :> PlainEntry(Num(500)))
FetchedSnapshots == {Snapshot(KnifeName :> PlainEntry(Num(600)))}

\* a variant that lets the snapshot expire once it is as old as maxAge
ExpiredAtMaxAge(timestamp, t, maxAge) == timestamp = 0 \/ (t - timestamp) >= maxAge

\* getWithExpiry: expired = !timestamp || (now - timestamp) > maxAge
Expired(timestamp, t, maxAge) == timestamp = 0 \/ (t - timestamp) > maxAge

\* a variant that serves the persisted snapshot when the fetch fails
OnFetchErrorServeStale(cachedData) == cachedData

\* the catch block of fetchPrices: return null
OnFetchError(cachedData) == Null

\* fetchPrices up to its first await: the snapshot in memory is returned as it
\* is, otherwise getWithExpiry issues its two reads
Call(p) ==
    /\ ld[p].pc = "idle"
    /\ LET first == cc.pc = "done" /\ ~cc.next
       IN  /\ IF prices # Null
              THEN ld' = [ld EXCEPT ![p] = [@ EXCEPT !.pc = "done", !.result = prices,
                                                      !.how = "memory",
                                                      !.age = now - pricesTime,
                                                      !.next = first]]
              ELSE ld' = [ld EXCEPT ![p] = [@ EXCEPT !.pc = "get", !.next = first]]
           /\ cc' = [cc EXCEPT !.next = @ \/ first]
    /\ UNCHANGED <<prices, storage, now, ticks, pricesTime, lookup, statsVars, nameVars, testResult, nav, promo, norm>>

\* CacheService.get(key) is served
ReadData(p) ==
    /\ ld[p].pc = "get"
    /\ ld' = [ld EXCEPT ![p] = [@ EXCEPT !.pc = "gotData", !.data = storage.data]]
    /\ UNCHANGED <<prices, storage, now, ticks, pricesTime, cc, lookup, statsVars, nameVars, testResult, nav, promo, norm>>

\* CacheService.get(timeKey, 0) is served
ReadTime(p) ==
    /\ ld[p].pc = "gotData"
    /\ ld' = [ld EXCEPT ![p] = [@ EXCEPT !.pc = "gotBoth", !.ts = storage.time]]
    /\ UNCHANGED <<prices, storage, now, ticks, pricesTime, cc, lookup, statsVars, nameVars, testResult, nav, promo, norm>>

\* getWithExpiry continues after Promise.all and fetchPrices after it: a
\* persisted snapshot that has not expired is taken, otherwise FETCH_URL is sent
Checked(p) ==
    /\ ld[p].pc = "gotBoth"
    /\ IF ~Expired(ld[p].ts, now, CACHE_DURATION) /\ ld[p].data # Null
       THEN /\ prices' = ld[p].data
            /\ pricesTime' = ld[p].ts
            /\ ld' = [ld EXCEPT ![p] = [@ EXCEPT !.pc = "done", !.result = ld[p].data,
                                                   !.how = "cache",
                                                   !.age = now - ld[p].ts]]
       ELSE /\ ld' = [ld EXCEPT ![p] = [@ EXCEPT !.pc = "fetch", !.sentAt = now]]
            /\ UNCHANGED <<prices, pricesTime>>
    /\ UNCHANGED <<storage, now, ticks, cc, lookup, statsVars, nameVars, testResult, nav, promo, norm>>

\* the background answers { success: true, data }: the snapshot goes to memory
\* and setWithExpiry issues its two writes, the time being Date.now() now
FetchSucceed(p, data) ==
    /\ ld[p].pc = "fetch"
    /\ prices' = data
    /\ pricesTime' = now
    /\ ld' = [ld EXCEPT ![p] = [@ EXCEPT !.pc = "set", !.fetched = data, !.wts = now]]
    /\ UNCHANGED <<storage, now, ticks, cc, lookup, statsVars, nameVars, testResult, nav, promo, norm>>

\* the background answers { success: false }, or sendMessage rejects
FetchFail(p) ==
    /\ ld[p].pc = "fetch"
    /\ ld' = [ld EXCEPT ![p] = [@ EXCEPT !.pc = "done", !.how = "failed",
                                           !.result = OnFetchError(ld[p].data)]]
    /\ UNCHANGED <<prices, storage, now, ticks, pricesTime, cc, lookup, statsVars, nameVars, testResult, nav, promo, norm>>

\* CacheService.set(key, value) is served
WriteData(p) ==
    /\ ld[p].pc = "set"
    /\ storage' = [storage EXCEPT !.data = ld[p].fetched]
    /\ ld' = [ld EXCEPT ![p] = [@ EXCEPT !.pc = "setData"]]
    /\ UNCHANGED <<prices, now, ticks, pricesTime, cc, lookup, statsVars, nameVars, testResult, nav, promo, norm>>

\* CacheService.set(timeKey, Date.now()) is served
WriteTime(p) ==
    /\ ld[p].pc = "setData"
    /\ storage' = [storage EXCEPT !.time = ld[p].wts]
    /\ ld' = [ld EXCEPT ![p] = [@ EXCEPT !.pc = "setBoth"]]
    /\ UNCHANGED <<prices, now, ticks, pricesTime, cc, lookup, statsVars, nameVars, testResult, nav, promo, norm>>

\* fetchPrices continues after setWithExpiry: return this.prices
Return(p) ==
    /\ ld[p].pc = "setBoth"
    /\ ld' = [ld EXCEPT ![p] = [@ EXCEPT !.pc = "done", !.how = "fetched", !.result = prices]]
    /\ UNCHANGED <<prices, storage, now, ticks, pricesTime, cc, lookup, statsVars, nameVars, testResult, nav, promo, norm>>

\* clearCache up to its first await: the memory is cleared, remove(key) issued
ClearCache ==
    /\ cc.pc = "idle"
    /\ prices' = Null
    /\ pricesTime' = 0
    /\ cc' = [cc EXCEPT !.pc = "removeData", !.held = {prices, storage.data} \ {Null}]
    /\ UNCHANGED <<storage, now, ticks, ld, lookup, statsVars, nameVars, testResult, nav, promo, norm>>

\* remove(key) is served and clearCache issues remove(timeKey)
RemoveData ==
    /\ cc.pc = "removeData"
    /\ storage' = [storage EXCEPT !.data = Null]
    /\ cc' = [cc EXCEPT !.pc = "removeTime"]
    /\ UNCHANGED <<prices, now, ticks, pricesTime, ld, lookup, statsVars, nameVars, testResult, nav, promo, norm>>

\* remove(timeKey) is served and clearCache completes
RemoveTime ==
    /\ cc.pc = "removeTime"
    /\ storage' = [storage EXCEPT !.time = 0]
    /\ cc' = [cc EXCEPT !.pc = "done"]
    /\ UNCHANGED <<prices, now, ticks, pricesTime, ld, lookup, statsVars, nameVars, testResult, nav, promo, norm>>

\* time passes: a millisecond, or the cache duration
Tick(d) ==
    /\ ticks < MaxTicks
    /\ now' = now + d
    /\ ticks' = ticks + 1
    /\ UNCHANGED <<prices, storage, pricesTime, ld, cc, lookup, statsVars, nameVars, testResult, nav, promo, norm>>

\* the page opens with an empty storage or with a snapshot persisted just now
Init ==
    /\ StatsIdle
    /\ NamesIdle
    /\ lookup = Null
    /\ prices = Null
    /\ now = StartTime
    /\ ticks = 0
    /\ pricesTime = 0
    /\ storage \in {[data |-> Null, time |-> 0], [data |-> PersistedSnapshot, time |-> StartTime]}
    /\ ld = [p \in Loaders |-> IdleCall]
    /\ cc = NoClear

Next ==
    \/ \E p \in Loaders : Call(p)
    \/ \E p \in Loaders : ReadData(p)
    \/ \E p \in Loaders : ReadTime(p)
    \/ \E p \in Loaders : Checked(p)
    \/ \E p \in Loaders, data \in FetchedSnapshots : FetchSucceed(p, data)
    \/ \E p \in Loaders : FetchFail(p)
    \/ \E p \in Loaders : WriteData(p)
    \/ \E p \in Loaders : WriteTime(p)
    \/ \E p \in Loaders : Return(p)
    \/ ClearCache
    \/ RemoveData
    \/ RemoveTime
    \/ \E d \in {1, CACHE_DURATION} : Tick(d)

Spec == Init /\ [][Next]_vars

-----------------------------------------------------------------------------
(* Claims about the cached load *)

\* C7: fetchPrices calls that overlap share one fetch: two FETCH_URL requests
\* are never in flight together unless they were sent a cache duration apart
C7_SingleFlight ==
    \A p, q \in Loaders :
        (p # q /\ ld[p].pc = "fetch" /\ ld[q].pc = "fetch")
            => Abs(ld[p].sentAt - ld[q].sentAt) >= CACHE_DURATION

\* the snapshot without any price
EmptySnapshot == Snapshot(<<>>)

\* C8 as stated: a call whose fetch failed returns the last good snapshot, the
\* persisted one, when there is one, and otherwise an empty snapshot
C8_FailureServesLastGood ==
    \A p \in Loaders :
        ld[p].how = "failed" =>
            ld[p].result \in (({ld[p].data, storage.data} \ {Null}) \cup {EmptySnapshot})

\* C8: a call whose fetch failed returns null, whether or not a snapshot is persisted
C8_FailureReturnsNull ==
    \A p \in Loaders : ld[p].how = "failed" => ld[p].result = Null

C8_Witness ==
    \E p \in Loaders :
        /\ ld[p].how = "failed"
        /\ ld[p].data = PersistedSnapshot
        /\ ld[p].ts # 0
        /\ ld[p].sentAt - ld[p].ts > CACHE_DURATION
        /\ storage.data = PersistedSnapshot
        /\ ld[p].result = Null

C10_InvalidateForcesRefetch ==
    \A p \in Loaders :
        (ld[p].next /\ ld[p].pc = "done") =>
            (ld[p].how \in {"fetched", "failed"} \/ ld[p].result \notin cc.held)

-----------------------------------------------------------------------------
(* The test opening: Helpers.weightedRandom and ProbabilityBox.simulateOpening *)

\* Math.random() * totalOdds is drawn on a grid of this many points per odds unit
DrawsPerUnit == 1

\* a variant of the loop that passes an item over when random reaches exactly 0
RECURSIVE WalkStrict(_, _, _)
WalkStrict(its, i, random) ==
    IF i > Len(its) THEN 1
    ELSE IF JsGt(Num(0), JsSub(random, Num(its[i].odds))) THEN i
    ELSE WalkStrict(its, i + 1, JsSub(random, Num(its[i].odds)))

\* the for loop of weightedRandom from item i on: random -= item.odds || 0, the
\* item is returned when random <= 0; after the loop items[0] is returned
RECURSIVE Walk(_, _, _)
Walk(its, i, random) ==
    IF i > Len(its) THEN 1
    ELSE IF ~JsGt(JsSub(random, Num(its[i].odds)), Num(0)) THEN i
    ELSE Walk(its, i + 1, JsSub(random, Num(its[i].odds)))

\* Helpers.weightedRandom(items) with random = Math.random() * totalOdds: the
\* index of the item returned, 0 for null
weightedRandom(its, random) == IF Len(its) = 0 THEN 0 ELSE Walk(its, 1, random)

\* the values Math.random() * totalOdds takes, in grid points: [0, totalOdds)
Draws(its) ==
    IF TotalOdds(its) = 0 THEN {0} ELSE 0..(TotalOdds(its) * DrawsPerUnit - 1)

\* the mis-encoded prefix simulateOpening puts before a StatTrak item
StatTrakShown == <<"StatTrak", "U+00E2 U+201E U+00A2", " ">>

\* what simulateOpening writes into the test-result panel for the selected item
Shown(selectedItem, casePrice, currency) ==
    [visible |-> TRUE,
     name |-> (IF selectedItem.isStattrak THEN StatTrakShown ELSE <<>>)
                  \o selectedItem.weaponName \o Sep \o selectedItem.skinName
                  \o (IF selectedItem.wearFull # <<>>
                      THEN <<" ", "(">> \o selectedItem.wearFull \o <<")">> ELSE <<>>),
     price |-> formatPrice(Num(selectedItem.price), currency),
     profit |-> formatProfit(Num(selectedItem.price - casePrice), currency),
     multiplier |-> ToFixed(IF casePrice > 0
                            THEN JsDiv(Num(selectedItem.price), Num(casePrice))
                            ELSE Num(0), 2)]

NothingShown == [visible |-> FALSE]

\* a click on the test button, Math.random() * totalOdds being draw / DrawsPerUnit
SimulateOpening(draw) ==
    /\ draw \in Draws(items)
    /\ LET selected == weightedRandom(items, Norm(draw, DrawsPerUnit))
       IN  testResult' = [of |-> items, draw |-> draw, selected |-> selected,
                          panel |-> IF selected = 0 THEN NothingShown
                                    ELSE Shown(items[selected], caseData.casePrice, userCurrency)]
    /\ UNCHANGED <<statsVars, prices, lookup, nameVars, loadVars, nav, promo, norm>>

\* the odds a site may give an item, 0 when it gives none
SimOdds == {0, 20, 80}
RECURSIVE SumOdds(_, _)
SumOdds(odds, i) == IF i = 0 THEN 0 ELSE odds[i] + SumOdds(odds, i - 1)
\* the lists of odds of a case, in percent: together at most 100
SimOddsLists ==
    {odds \in UNION {[1..n -> SimOdds] : n \in 0..MaxItems} : SumOdds(odds, Len(odds)) <= 100}
SimItems(odds) ==
    [i \in 1..Len(odds) |-> IF i % 2 = 1 THEN Knife(1000, odds[i]) ELSE Rifle(100, odds[i])]
SimCaseDatas == {[casePrice |-> 250, items |-> SimItems(odds)] : odds \in SimOddsLists}

InitSim ==
    /\ StatsIdle
    /\ NamesIdle
    /\ LoadIdle
    /\ prices = Null
    /\ lookup = Null

NextSim ==
    \/ \E cd \in SimCaseDatas : LoadData(cd, Null)
    \/ \E draw \in Draws(items) : SimulateOpening(draw)

SpecSim == InitSim /\ [][NextSim]_vars

-----------------------------------------------------------------------------
(* Claims about the test opening *)

\* C15: a test opening selects nothing when the item list is empty or the
\* total of the odds is 0
C15_NullWithoutOdds ==
    (testResult # Null /\ (Len(testResult.of) = 0 \/ TotalOdds(testResult.of) = 0)) =>
        testResult.selected = 0

\* the odds of the first i items
RECURSIVE CumOdds(_, _)
CumOdds(its, i) == IF i = 0 THEN 0 ELSE its[i].odds + CumOdds(its, i - 1)

\* the grid points of the draws over its that select item i
DrawsSelecting(its, i) == {d \in Draws(its) : weightedRandom(its, Norm(d, DrawsPerUnit)) = i}

OddsOf(its) == [i \in 1..Len(its) |-> its[i].odds]

\* C16: with total odds > 0 a test opening selects one item of the case, the
\* first one in case order whose cumulated odds reach the draw; over the draws
\* of [0, total) the item of odds 80 of the odds [20, 80] is selected in 78% to
\* 82% of them
C16_FirstItemReachingDraw ==
    (testResult # Null /\ TotalOdds(testResult.of) > 0) =>
        /\ testResult.selected \in 1..Len(testResult.of)
        /\ testResult.draw <= CumOdds(testResult.of, testResult.selected) * DrawsPerUnit
        /\ \A j \in 1..(testResult.selected - 1) :
               testResult.draw > CumOdds(testResult.of, j) * DrawsPerUnit
        /\ testResult.panel.visible
        /\ (OddsOf(testResult.of) = <<20, 80>> =>
               /\ 78 * Cardinality(Draws(testResult.of)) <= 100 * Cardinality(DrawsSelecting(testResult.of, 2))
               /\ 100 * Cardinality(DrawsSelecting(testResult.of, 2)) <= 82 * Cardinality(Draws(testResult.of)))

\* C16 witness: of the odds [20, 80] the second item is selected by a draw above 20
C16_Witness ==
    /\ testResult # Null
    /\ OddsOf(testResult.of) = <<20, 80>>
    /\ testResult.draw > 20 * DrawsPerUnit
    /\ testResult.selected = 2
    /\ testResult.panel.visible

-----------------------------------------------------------------------------
(* The pipeline of a view: the adapter's fetches, the parser's transform and
   the join of loadData *)

\* KeyDropParser.normalizeWear(wear)
KeyDrop_normalizeWear(wear) ==
    IF wear = "" THEN ""
    ELSE IF wear \in {"FN", "Factory New"} THEN "FN"
    ELSE IF wear \in {"MW", "Minimal Wear"} THEN "MW"
    ELSE IF wear \in {"FT", "Field-Tested", "Field Tested"} THEN "FT"
    ELSE IF wear \in {"WW", "Well-Worn", "Well Worn"} THEN "WW"
    ELSE IF wear \in {"BS", "Battle-Scarred", "Battle Scarred"} THEN "BS"
    ELSE wear

\* KeyDropParser.getFullWear(wear): wearMap[wear.toUpperCase()] || wear
KeyDrop_getFullWear(wear) ==
    IF wear = "" THEN <<>>
    ELSE IF wear = "FN" THEN <<"Factory New">>
    ELSE IF wear = "MW" THEN <<"Minimal Wear">>
    ELSE IF wear = "FT" THEN <<"Field-Tested">>
    ELSE IF wear = "WW" THEN <<"Well-Worn">>
    ELSE IF wear = "BS" THEN <<"Battle-Scarred">>
    ELSE <<wear>>

\* the replace calls of KeyDropParser.buildMarketHashName from label i on: each
\* removes the first ' - <label>' of the title
RECURSIVE KeyDrop_stripPhases(_, _)
KeyDrop_stripPhases(hashName, i) ==
    IF i > Len(PhaseNames) THEN hashName
    ELSE KeyDrop_stripPhases(ReplaceFirst(hashName, <<" ", "-", " ", PhaseNames[i]>>, <<>>), i + 1)

\* KeyDropParser.buildMarketHashName(fullTitle, wearFull, phase)
KeyDrop_buildMarketHashName(fullTitle, wearFull, phase) ==
    IF fullTitle = <<>> THEN <<>>
    ELSE IF wearFull # <<>>
         THEN (IF phase # NoPhase THEN Trim(KeyDrop_stripPhases(Trim(fullTitle), 1)) ELSE Trim(fullTitle))
                  \o <<" ", "(">> \o wearFull \o <<")">>
         ELSE (IF phase # NoPhase THEN Trim(KeyDrop_stripPhases(Trim(fullTitle), 1)) ELSE Trim(fullTitle))

\* KeyDropParser.extractPhase(fullTitle): the same patterns, in the same order
KeyDrop_extractPhase(fullTitle) == IF fullTitle = <<>> THEN NoPhase ELSE extractPhase(fullTitle)

\* the item KeyDropParser.transform pushes for one wear of a raw item, the
\* exchange rate being its default 1
KeyDrop_itemOf(item, wearData) ==
    [weaponName |-> Trim(item.title), skinName |-> Trim(item.subtitle),
     wear |-> KeyDrop_normalizeWear(wearData.rarity),
     wearFull |-> KeyDrop_getFullWear(wearData.rarity),
     isStattrak |-> Includes(item.fullTitle, <<"StatTrak">>),
     price |-> wearData.price, odds |-> wearData.odds,
     marketHashName |-> KeyDrop_buildMarketHashName(item.fullTitle,
                            KeyDrop_getFullWear(wearData.rarity), KeyDrop_extractPhase(item.fullTitle)),
     phase |-> KeyDrop_extractPhase(item.fullTitle)]

\* rawItems.forEach from raw item i on: an item without pf is skipped
RECURSIVE KeyDrop_items(_, _)
KeyDrop_items(rawItems, i) ==
    IF i > Len(rawItems) THEN <<>>
    ELSE (IF rawItems[i].hasPf
          THEN [j \in 1..Len(rawItems[i].pf) |-> KeyDrop_itemOf(rawItems[i], rawItems[i].pf[j])]
          ELSE <<>>) \o KeyDrop_items(rawItems, i + 1)

\* KeyDropParser.transform(rawData) of a payload whose items, when there, are a
\* list: rawItems = rawData.items || []
KeyDropParser_transform(rawData) ==
    IF rawData = Null THEN Null
    ELSE [casePrice |-> rawData.price,
          items |-> KeyDrop_items(IF rawData.container = "none" THEN <<>> ELSE rawData.items, 1)]

\* the settled promise of an async function
Pending == [st |-> "pending"]
Rejected(raw) == [st |-> "rejected", raw |-> raw]
Resolved(v, raw) == [st |-> "resolved", v |-> v, raw |-> raw]

\* KeyDropAdapter.fetchCaseData, api being what KeyDropAPI.fetchCaseData resolved
\* to (null after a failed request): everything transform throws is caught
KeyDrop_fetchCaseData(api) ==
    IF api = Null THEN Resolved(Null, api)
    ELSE IF api.container = "other" THEN Resolved(Null, api)
    ELSE Resolved(KeyDropParser_transform(api), api)

\* the item HellcaseParser.transform pushes for one variant of a raw item
Hellcase_itemOf(item, variant) ==
    [weaponName |-> item.weapon_name, skinName |-> item.skin_name,
     wearFull |-> variant.steam_exterior, isStattrak |-> variant.is_stattrak,
     price |-> variant.steam_price_en, odds |-> variant.odds,
     marketHashName |-> Hellcase_buildMarketHashName(item.weapon_name, item.skin_name,
                            variant.steam_exterior, variant.is_stattrak, extractPhase(item.skin_name)),
     phase |-> extractPhase(item.skin_name)]

\* rawData.itemlist.forEach from raw item i on: an item without an items array is skipped
RECURSIVE Hellcase_items(_, _)
Hellcase_items(itemlist, i) ==
    IF i > Len(itemlist) THEN <<>>
    ELSE (IF itemlist[i].hasItems
          THEN [j \in 1..Len(itemlist[i].items) |-> Hellcase_itemOf(itemlist[i], itemlist[i].items[j])]
          ELSE <<>>) \o Hellcase_items(itemlist, i + 1)

\* HellcaseParser.transform(rawData) of a payload whose itemlist, when there, is a list
HellcaseParser_transform(rawData) ==
    IF rawData = Null \/ rawData.container = "none" THEN Null
    ELSE [casePrice |-> rawData.price, items |-> Hellcase_items(rawData.items, 1)]

\* HellcaseAdapter.fetchCaseData, api being what HellcaseAPI.fetchCaseData
\* resolved to: itemlist.forEach of something that is no list throws, uncaught
Hellcase_fetchCaseData(api) ==
    IF api = Null THEN Resolved(Null, api)
    ELSE IF api.container = "other" THEN Rejected(api)
    ELSE Resolved(HellcaseParser_transform(api), api)

\* CurrencyService.create(name, rate) of a known currency
CurrencyService_create(name, rate) == [name |-> name, rate |-> rate, symbol |-> name]

\* HellcaseAdapter.fetchUserCurrency, currency being userData?.user?.user_currency,
\* null when fetchUserData failed
Hellcase_fetchUserCurrency(currency) ==
    IF currency # Null THEN CurrencyService_create(currency.name, currency.rate)
    ELSE defaultCurrency

\* the raw payloads of the sites
KeyDrop_Rifle ==
    [title |-> <<"AK-47">>, subtitle |-> <<"Redline">>,
     fullTitle |-> <<"AK-47", " ", "|", " ", "Redline">>, hasPf |-> TRUE,
     pf |-> <<[rarity |-> "FT", price |-> 100, odds |-> 70]>>]
KeyDrop_Knife ==
    [title |-> <<"U+2605", " ", "Karambit">>, subtitle |-> <<"Doppler">>,
     fullTitle |-> <<"U+2605", " ", "Karambit", " ", "|", " ", "Doppler", " ", "-", " ", "Phase 1">>,
     hasPf |-> TRUE, pf |-> <<[rarity |-> "FN", price |-> 1000, odds |-> 30]>>]
KeyDrop_NoPf ==
    [title |-> <<"AK-47">>, subtitle |-> <<"Redline">>,
     fullTitle |-> <<"AK-47", " ", "|", " ", "Redline">>, hasPf |-> FALSE, pf |-> <<>>]
Hellcase_Rifle ==
    [weapon_name |-> <<"AK-47">>, skin_name |-> <<"Redline">>, hasItems |-> TRUE,
     items |-> <<[steam_exterior |-> <<"Field-Tested">>, is_stattrak |-> FALSE,
                  steam_price_en |-> 100, odds |-> 70]>>]
Hellcase_Knife ==
    [weapon_name |-> <<"U+2605", " ", "Karambit">>, skin_name |-> <<"Doppler">>, hasItems |-> TRUE,
     items |-> <<[steam_exterior |-> <<"Factory New">>, is_stattrak |-> FALSE,
                  steam_price_en |-> 1000, odds |-> 30]>>]
Hellcase_NoItems ==
    [weapon_name |-> <<"AK-47">>, skin_name |-> <<"Redline">>, hasItems |-> FALSE, items |-> <<>>]

RawItemsOf(site) ==
    IF site = "keydrop" THEN {KeyDrop_Rifle, KeyDrop_Knife, KeyDrop_NoPf}
    ELSE {Hellcase_Rifle, Hellcase_Knife, Hellcase_NoItems}

\* what the site's API call resolved to: null after a failed request, or a
\* payload without its item container, with something else in its place, or
\* with a list of raw items
ApiResults(site) ==
    {Null, [price |-> 250, container |-> "none", items |-> <<>>],
           [price |-> 250, container |-> "other", items |-> <<>>]}
    \cup {[price |-> 250, container |-> "list", items |-> its] :
              its \in UNION {[1..n -> RawItemsOf(site)] : n \in 0..MaxItems}}

Sites == {"keydrop", "hellcase"}

\* loadData() up to its await: the three fetches are started
CallLoadData(site) ==
    /\ pend = Null
    /\ spc = "loading"
    /\ pend' = [site |-> site, caseData |-> Pending, prices |-> Pending, currency |-> Pending]
    /\ UNCHANGED <<caseData, items, stats, cards, userCurrency, spc, testResult, nav, promo, norm, prices, lookup,
                   nameVars, loadVars>>

\* adapter.fetchCaseData() settles, the site having answered api
CaseDataSettles(api) ==
    /\ pend # Null
    /\ pend.caseData = Pending
    /\ api \in ApiResults(pend.site)
    /\ pend' = [pend EXCEPT !.caseData = IF pend.site = "keydrop" THEN KeyDrop_fetchCaseData(api)
                                         ELSE Hellcase_fetchCaseData(api)]
    /\ UNCHANGED <<caseData, items, stats, cards, userCurrency, spc, testResult, nav, promo, norm, prices, lookup,
                   nameVars, loadVars>>

\* a variant of fetchPrices that rejects after a failed request
fetchPricesRejecting(P) == IF P = Null THEN Rejected(P) ELSE Resolved(P, P)

\* the promise of PricingService.fetchPrices(): it resolves, to the snapshot or,
\* a failed request being caught, to null
fetchPrices(P) == Resolved(P, P)

\* PricingService.fetchPrices() settles
PricesSettle(P) ==
    /\ pend # Null
    /\ pend.prices = Pending
    /\ prices' = P
    /\ pend' = [pend EXCEPT !.prices = fetchPrices(P)]
    /\ UNCHANGED <<caseData, items, stats, cards, userCurrency, spc, testResult, nav, promo, norm, lookup,
                   nameVars, loadVars>>

\* adapter.fetchUserCurrency() settles: KeyDrop's returns the default currency,
\* Hellcase's what the user data say
CurrencySettles(currency) ==
    /\ pend # Null
    /\ pend.currency = Pending
    /\ pend.site = "keydrop" => currency = Null
    /\ pend' = [pend EXCEPT !.currency = IF pend.site = "keydrop" THEN Resolved(defaultCurrency, Null)
                                         ELSE Resolved(Hellcase_fetchUserCurrency(currency), currency)]
    /\ UNCHANGED <<caseData, items, stats, cards, userCurrency, spc, testResult, nav, promo, norm, prices, lookup,
                   nameVars, loadVars>>

\* Promise.all resolved: the rest of the try block of loadData
Joined ==
    /\ pend # Null
    /\ pend.caseData.st = "resolved"
    /\ pend.prices.st = "resolved"
    /\ pend.currency.st = "resolved"
    /\ LoadData(pend.caseData.v, pend.currency.v)

\* Promise.all rejected: the catch block of loadData
Caught ==
    /\ pend # Null
    /\ "rejected" \in {pend.caseData.st, pend.prices.st, pend.currency.st}
    /\ spc = "loading"
    /\ spc' = "errorLoadData"
    /\ UNCHANGED <<caseData, items, stats, cards, userCurrency, pend, testResult, nav, promo, norm, prices, lookup,
                   nameVars, loadVars>>

InitPipe ==
    /\ StatsIdle
    /\ NamesIdle
    /\ LoadIdle
    /\ prices = Null
    /\ lookup = Null

NextPipe ==
    \/ \E site \in Sites : CallLoadData(site)
    \/ \E api \in ApiResults("keydrop") \cup ApiResults("hellcase") : CaseDataSettles(api)
    \/ \E P \in StatsSnapshots : PricesSettle(P)
    \/ \E currency \in {Null, [name |-> Euro.name, rate |-> Euro.rate]} : CurrencySettles(currency)
    \/ Joined
    \/ Caught

SpecPipe == InitPipe /\ [][NextPipe]_vars

\* the state in which Joined is enabled
JoinedEnabled ==
    /\ pend # Null
    /\ pend.caseData.st = "resolved"
    /\ pend.prices.st = "resolved"
    /\ pend.currency.st = "resolved"
    /\ spc = "loading"

\* the event loop runs the continuation of a settled Promise.all: weak fairness
\* of Joined, written out with its enabling condition, and of Caught. Nothing in
\* the program makes a request of the network settle: loadData, the adapters
\* and fetchPrices set no timeout, so the settling steps have no fairness
SpecPipeFair ==
    /\ SpecPipe
    /\ ([]<>~JoinedEnabled \/ []<><<Joined>>_vars)
    /\ WF_vars(Caught)

-----------------------------------------------------------------------------
(* Claims about the pipeline *)

\* the case fetch of the view has settled without a usable payload: the request
\* failed, or the payload has no list of items where its item container belongs
PayloadFailed ==
    /\ pend # Null
    /\ pend.caseData # Pending
    /\ (pend.caseData.raw = Null \/ pend.caseData.raw.container # "list")

\* the view shows an error, or still the loading text, and has no statistics
Halted ==
    /\ spc \in {"loading", "errorCaseData", "errorNoItems", "errorLoadData"}
    /\ stats = Null
    /\ cards = Null

\* C17: when the case payload is missing, its fetch failed or it lacks its item
\* container, the adapter's fetch reports a failure (null or a rejection) and
\* the view halts: it ends in an error and its statistics are never computed
C17_PayloadFailureIsExplicit ==
    PayloadFailed =>
        /\ (pend.caseData.st = "rejected" \/ pend.caseData.v = Null)
        /\ Halted

\* the case fetch of the view has resolved to a case with items
CaseArrived ==
    /\ pend # Null
    /\ pend.caseData.st = "resolved"
    /\ pend.caseData.v # Null
    /\ Len(pend.caseData.v.items) > 0

\* the price fetch has settled after a failed request or without a table
PricesFailed == pend # Null /\ pend.prices # Pending /\ pend.prices.raw = Null

\* the currency fetch has settled without a currency preference of the user
CurrencyFailed == pend # Null /\ pend.currency # Pending /\ pend.currency.raw = Null

\* the statistics and their cards come from the site prices alone
SitePriceOnly ==
    /\ \A i \in 1..Len(items) : items[i].realPrice = Null
    /\ ~stats.hasRealPrices
    /\ stats.real = NoRealStats
    /\ IsNum(stats.expectedValue)
    /\ stats.expectedValue.n * 100 = SumPriceOdds(items, FALSE) * stats.expectedValue.d
    /\ \A c \in DOMAIN cards : cards[c].sub = NoSub

C19_LeavesLoading == (pend # Null) ~> (spc # "loading")

-----------------------------------------------------------------------------
(* Claims about vanilla items *)

\* C20: the market hash name built for a vanilla knife or glove, an item with
\* an empty skinName, has no ' | ' separator
C20_VanillaOmitsSeparator ==
    (built # Null /\ nameIn.skinName = <<>>) => ~Includes(built.marketHashName, Sep)

-----------------------------------------------------------------------------
(* Claims about the star prefix *)

\* the fields f with the star glyph of the weapon name replaced by the canonical prefix
WithCanonicalStar(f) ==
    [f EXCEPT !.weaponName = IF StarMatchLen(f.weaponName) > 0
                             THEN StarCanon \o WeaponSegment(f.weaponName) ELSE f.weaponName]

\* the name a builder of market hash names gives the fields f
NameBuiltBy(by, f) ==
    IF by = "pricing"
    THEN getMarketHashName(f.weaponName, f.skinName, f.wearFull, f.isStattrak)
    ELSE IF by = "hellcase"
    THEN Hellcase_buildMarketHashName(f.weaponName, f.skinName, f.wearFull, f.isStattrak, f.phase)
    ELSE IF by = "csgoempire"
    THEN CSGOEmpire_buildMarketHashName(f.weaponName, f.skinName, f.wearFull, f.isStattrak, f.phase)
    ELSE CSGO500_buildMarketHashName(f.weaponName, f.skinName, f.wearFull, f.isStattrak, f.phase)

\* C21: a weapon name that starts with one of the star glyphs is built into a
\* name that starts with the canonical star prefix and is the name built for the
\* same fields with the canonical star
C21_StarNormalised ==
    (built # Null /\ built.by \in {"pricing", "hellcase", "csgoempire"}
        /\ Head(nameIn.weaponName) \in StarGlyphs) =>
        /\ StartsWith(built.marketHashName, StarCanon)
        /\ built.marketHashName = NameBuiltBy(built.by, WithCanonicalStar(nameIn))

-----------------------------------------------------------------------------
(* ProbabilityBox on a single-page site: init, observePageChanges, removeBox,
   tryInsertBox, insertBox, toggleItems, and the loadData calls they start.
   nav.box is the element #csp-probability-box of the document (Null when the
   document has none); its field shows names the page whose case was last
   rendered into it. nav.polls holds one interval per case-view event. *)

MaxNavs == 2
MaxCallbacks == 2

Paths == {"other", "A", "B"}
CasePaths == {"A", "B"}

\* adapter.isCasePage() at the path of the page
isCasePage(path) == path \in CasePaths

\* what adapter.fetchCaseData() of a loadData started at the path resolves to
CaseOf(path) ==
    IF path = "A" THEN [casePrice |-> 250, items |-> <<Knife(100, 70)>>]
    ELSE [casePrice |-> 1000, items |-> <<Rifle(1000, 30)>>]

\* Templates.mainBox(): the toggle reads 'Show Items', nothing is expanded
MainBox == [expanded |-> FALSE, text |-> "Show Items", shows |-> "none"]

\* tryInsertBox(): on a case page one more interval, polling every 500 ms
tryInsertBox(polls, path) ==
    IF ~isCasePage(path) THEN polls
    ELSE Append(polls, [active |-> TRUE, waiting |-> 0, runs |-> 0])

\* insertBox(): nothing when the document has a box, else a box from the template
insertBox(box) == IF box # Null THEN box ELSE MainBox

\* toggleItems() on the box of the document
toggleItems(box, expanded) ==
    [box EXCEPT !.expanded = expanded,
                !.text = IF expanded THEN "Hide Items" ELSE "Show Items"]

\* the MutationObserver of observePageChanges runs after a change of the
\* document: at a new pathname removeBox(), then tryInsertBox()
Observed(n) ==
    IF n.path = n.lastPath THEN n
    ELSE [n EXCEPT !.lastPath = n.path, !.box = Null, !.polls = tryInsertBox(@, n.path)]

navRest == <<caseData, items, stats, cards, userCurrency, pend, testResult, promo, norm,
             prices, lookup, nameVars, loadVars>>

\* content.js init(): new ProbabilityBox(adapter), then box.init() at path p
ProbabilityBox_init(p) ==
    /\ nav = Null
    /\ nav' = [path |-> p, lastPath |-> p, navs |-> 0, box |-> Null, isExpanded |-> FALSE,
               polls |-> tryInsertBox(<<>>, p), loads |-> [c \in CasePaths |-> 0]]
    /\ UNCHANGED <<spc, navRest>>

\* the single-page site moves to another path
Navigate(p) ==
    /\ nav # Null
    /\ nav.navs < MaxNavs
    /\ p # nav.path
    /\ nav' = [nav EXCEPT !.path = p, !.navs = @ + 1]
    /\ UNCHANGED <<spc, navRest>>

\* the page changes its document at a new pathname and the observer runs
PageChanged ==
    /\ nav # Null
    /\ nav.path # nav.lastPath
    /\ nav' = Observed(nav)
    /\ spc' = IF nav.box = Null THEN spc ELSE "removed"
    /\ cards' = Null
    /\ UNCHANGED <<caseData, items, stats, userCurrency, pend, testResult, promo, norm,
                   prices, lookup, nameVars, loadVars>>

\* the interval i fires: its callback starts to await getInsertionPoint()
PollFire(i) ==
    /\ nav # Null
    /\ i \in 1..Len(nav.polls)
    /\ nav.polls[i].active
    /\ nav.polls[i].waiting < MaxCallbacks
    /\ nav' = [nav EXCEPT !.polls[i].waiting = @ + 1]
    /\ UNCHANGED <<spc, navRest>>

\* a callback of interval i resumes: with an insertion point it clears the
\* interval, calls insertBox() and starts loadData(), which writes the
\* loading text and starts fetching the case of the current path; the
\* observer then runs, the document having changed
PollResume(i, found) ==
    /\ nav # Null
    /\ i \in 1..Len(nav.polls)
    /\ nav.polls[i].waiting > 0
    /\ found => isCasePage(nav.path)
    /\ IF found
       THEN /\ nav' = Observed([nav EXCEPT !.polls[i] = [active |-> FALSE,
                                                         waiting |-> @.waiting - 1,
                                                         runs |-> @.runs + 1],
                                           !.box = insertBox(@),
                                           !.loads[nav.path] = @ + 1])
            /\ spc' = IF nav.path = nav.lastPath THEN "loading" ELSE "removed"
            /\ cards' = IF nav.path = nav.lastPath THEN cards ELSE Null
       ELSE /\ nav' = [nav EXCEPT !.polls[i].waiting = @ - 1]
            /\ UNCHANGED <<spc, cards>>
    /\ UNCHANGED <<caseData, items, stats, userCurrency, pend, testResult, promo, norm,
                   prices, lookup, nameVars, loadVars>>

\* the 15 s timeout of tryInsertBox clears the interval i
PollTimeout(i) ==
    /\ nav # Null
    /\ i \in 1..Len(nav.polls)
    /\ nav.polls[i].active
    /\ nav' = [nav EXCEPT !.polls[i].active = FALSE]
    /\ UNCHANGED <<spc, navRest>>

\* the fetches of a loadData() started at path c settle: with a box in the
\* document render() writes into it (and the observer runs, which at a new
\* pathname removes the box again); with none renderStats throws after
\* caseData and items were assigned, and the catch writes to a detached node
LoadDone(c) ==
    /\ nav # Null
    /\ nav.loads[c] > 0
    /\ IF nav.box = Null
       THEN /\ caseData' = CaseOf(c)
            /\ userCurrency' = defaultCurrency
            /\ items' = processItems(prices, CaseOf(c))
            /\ nav' = [nav EXCEPT !.loads[c] = @ - 1]
            /\ UNCHANGED <<stats, cards, spc>>
       ELSE IF nav.path = nav.lastPath
       THEN /\ LoadDataJoined(CaseOf(c), Null)
            /\ nav' = [nav EXCEPT !.loads[c] = @ - 1, !.box.shows = c]
       ELSE /\ caseData' = CaseOf(c)
            /\ userCurrency' = defaultCurrency
            /\ items' = renderTable(processItems(prices, CaseOf(c))).items
            /\ stats' = calculateStats(items', CaseOf(c).casePrice)
            /\ cards' = Null
            /\ spc' = "removed"
            /\ nav' = Observed([nav EXCEPT !.loads[c] = @ - 1])
    /\ UNCHANGED <<pend, testResult, promo, norm, prices, lookup, nameVars, loadVars>>

\* a click on #csp-toggle of the box in the document; toggleItems() writes
\* the text of the toggle, so the observer runs
Toggle ==
    /\ nav # Null
    /\ nav.box # Null
    /\ nav' = Observed([nav EXCEPT !.isExpanded = ~@,
                                   !.box = toggleItems(@, ~nav.isExpanded)])
    /\ spc' = IF nav.path = nav.lastPath THEN spc ELSE "removed"
    /\ cards' = IF nav.path = nav.lastPath THEN cards ELSE Null
    /\ UNCHANGED <<caseData, items, stats, userCurrency, pend, testResult, promo, norm,
                   prices, lookup, nameVars, loadVars>>

InitNav ==
    /\ StatsIdle
    /\ NamesIdle
    /\ LoadIdle
    /\ prices = Snapshot(KnifeName :> PlainEntry(Num(500)))
    /\ lookup = Null

NextNav ==
    \/ \E p \in Paths : ProbabilityBox_init(p)
    \/ \E p \in Paths : Navigate(p)
    \/ PageChanged
    \/ \E i \in 1..(MaxNavs + 2) : PollFire(i)
    \/ \E i \in 1..(MaxNavs + 2), found \in BOOLEAN : PollResume(i, found)
    \/ \E i \in 1..(MaxNavs + 2) : PollTimeout(i)
    \/ \E c \in CasePaths : LoadDone(c)
    \/ Toggle

SpecNav == InitNav /\ [][NextNav]_vars

\* C22 as stated: each case-view event triggers exactly one pipeline
\* execution, so the interval of a view never starts loadData more than once
C22_OneLoadPerView ==
    nav # Null => \A i \in 1..Len(nav.polls) : nav.polls[i].runs <= 1

\* no interval polls, no callback waits, no loadData is in flight and the
\* observer has seen the current path
Quiescent ==
    /\ nav.path = nav.lastPath
    /\ \A i \in 1..Len(nav.polls) : ~nav.polls[i].active /\ nav.polls[i].waiting = 0
    /\ \A c \in CasePaths : nav.loads[c] = 0

\* C28 as stated: once everything has settled, a box that shows rendered
\* statistics shows those of the case of the current page
C28_ShowsCurrentCase ==
    (nav # Null /\ Quiescent /\ nav.box # Null /\ spc = "rendered")
        => nav.box.shows = nav.path

\* C29 as stated: the box of the document is expanded, and its toggle reads
\* "Hide Items", exactly when isExpanded is true
C29_ExpandedAgreesWithDisplay ==
    (nav # Null /\ nav.box # Null)
        => /\ nav.box.expanded = nav.isExpanded
           /\ (nav.box.text = "Hide Items") = nav.isExpanded

-----------------------------------------------------------------------------
(* PromoBanner: the banner element of the document (promo.banner), the item
   'cscaseprofit-banner-dismissed' of localStorage (promo.stored, <<>> when
   absent) and, for the claims, the time of the latest dismissal (promo.last)
   and the time the banner now shown was created (promo.shownAt) *)

fourteenDays == 14 * 24 * 60 * 60 * 1000

\* isBannerDismissed() with >= for >: the dismissal ends at fourteen days sharp
isBannerDismissedAt14(stored, t) ==
    IF stored = <<>> THEN [result |-> FALSE, stored |-> stored]
    ELSE IF t - stored[1] >= fourteenDays THEN [result |-> FALSE, stored |-> <<>>]
    ELSE [result |-> TRUE, stored |-> stored]

\* isBannerDismissed() at time t: its result, and the item it leaves in localStorage
isBannerDismissed(stored, t) ==
    IF stored = <<>> THEN [result |-> FALSE, stored |-> stored]
    ELSE IF t - stored[1] > fourteenDays THEN [result |-> FALSE, stored |-> <<>>]
    ELSE [result |-> TRUE, stored |-> stored]

\* showBanner() at time t, the site's promo code being active or not
showBanner(p, active, t) ==
    IF p.banner THEN p
    ELSE IF isBannerDismissed(p.stored, t).result THEN p
    ELSE IF active THEN [p EXCEPT !.stored = isBannerDismissed(p.stored, t).stored]
    ELSE [p EXCEPT !.stored = isBannerDismissed(p.stored, t).stored,
                   !.banner = TRUE, !.shownAt = <<t>>]

\* hideBanner() at time t
hideBanner(p, t) ==
    IF p.banner THEN [p EXCEPT !.banner = FALSE, !.stored = <<t>>, !.last = <<t>>]
    ELSE p

promoRest == <<statsVars, testResult, nav, norm, prices, lookup, nameVars, loadVars>>

Hrefs == {"home", "deposit"}

\* isDepositPage(): siteHandler.depositDetector() at the href of the page
isDepositPage(href) == href = "deposit"

\* content.js init() on a fresh profile: PromoBanner.init() with a site
\* handler, at the href h, the site's promo code not being active
PromoBanner_init(h) ==
    /\ promo = Null
    /\ promo' = IF isDepositPage(h)
                THEN showBanner([banner |-> FALSE, stored |-> <<>>, last |-> <<>>,
                                 shownAt |-> <<>>, href |-> h, lastUrl |-> h,
                                 active |-> FALSE], FALSE, now)
                ELSE [banner |-> FALSE, stored |-> <<>>, last |-> <<>>, shownAt |-> <<>>,
                      href |-> h, lastUrl |-> h, active |-> FALSE]
    /\ UNCHANGED promoRest

\* the page is loaded again: a new document, the same localStorage, init() again
Reinit ==
    /\ promo # Null
    /\ promo' = IF isDepositPage(promo.href)
                THEN showBanner([promo EXCEPT !.banner = FALSE, !.lastUrl = promo.href],
                                promo.active, now)
                ELSE [promo EXCEPT !.banner = FALSE, !.lastUrl = promo.href]
    /\ UNCHANGED promoRest

\* the single-page site moves to another href
GoTo(h) ==
    /\ promo # Null
    /\ h # promo.href
    /\ promo' = [promo EXCEPT !.href = h]
    /\ UNCHANGED promoRest

\* the MutationObserver of init() runs
PageMutation ==
    /\ promo # Null
    /\ promo' = IF ~isDepositPage(promo.href) THEN promo
                ELSE IF promo.active THEN [promo EXCEPT !.banner = FALSE]
                ELSE showBanner(promo, promo.active, now)
    /\ UNCHANGED promoRest

\* the 1 s interval of init() finds a new window.location.href
UrlChange ==
    /\ promo # Null
    /\ promo.href # promo.lastUrl
    /\ promo' = IF isDepositPage(promo.href)
                THEN showBanner([promo EXCEPT !.lastUrl = promo.href], promo.active, now)
                ELSE [promo EXCEPT !.lastUrl = promo.href]
    /\ UNCHANGED promoRest

\* a click on 'Apply Code': applyCode() enters the code, the banner stays;
\* the site takes the code (ok) or not
ApplyClick(ok) ==
    /\ promo # Null
    /\ promo.banner
    /\ promo' = [promo EXCEPT !.active = @ \/ ok]
    /\ UNCHANGED promoRest

\* a click on the close button of the banner
CloseClick ==
    /\ promo # Null
    /\ promo.banner
    /\ promo' = hideBanner(promo, now)
    /\ UNCHANGED promoRest

\* the largest time the model counts to, in ms
MaxClock == 2^30 + (2^30 - 1)

InitPromo ==
    /\ StatsIdle
    /\ NamesIdle
    /\ LoadIdle
    /\ prices = Null
    /\ lookup = Null

NextPromo ==
    \/ \E h \in Hrefs : PromoBanner_init(h)
    \/ Reinit
    \/ \E h \in Hrefs : GoTo(h)
    \/ PageMutation
    \/ UrlChange
    \/ \E ok \in BOOLEAN : ApplyClick(ok)
    \/ CloseClick
    \/ \E d \in {1, fourteenDays} : now <= MaxClock - d /\ Tick(d)

SpecPromo == InitPromo /\ [][NextPromo]_vars

\* C30: once the banner was dismissed, a banner in the document was created
\* more than fourteen days after the latest dismissal; so no page mutation,
\* URL change or re-init shows one within fourteen days of it
C30_HiddenForFourteenDays ==
    (promo # Null /\ promo.banner /\ promo.last # <<>>)
        => promo.shownAt[1] - promo.last[1] > fourteenDays

\* C30 witness: the banner was dismissed and is shown again, after the period
C30_Witness ==
    /\ promo # Null
    /\ promo.banner
    /\ promo.last # <<>>
    /\ promo.shownAt[1] = promo.last[1] + fourteenDays + 1

-----------------------------------------------------------------------------
(* Claims about the persisted snapshot and its timestamp *)

\* the pairs of data and timestamp that were persisted as one: the empty
\* storage, the pair of the former visit, and the pair a refresh of q wrote
WrittenAsOne(data, ts) ==
    \/ data = Null /\ ts = 0
    \/ data = PersistedSnapshot /\ ts = StartTime
    \/ \E q \in Loaders : ld[q].fetched # Null /\ data = ld[q].fetched /\ ts = ld[q].wts

\* C23 as stated: a refresh replaces the persisted snapshot as a whole, so
\* the data and the timestamp getWithExpiry has read were persisted as one
\* pair (clearCache not having been called)
C23_SnapshotReadWhole ==
    cc.pc = "idle" =>
        \A p \in Loaders : ld[p].pc = "gotBoth" => WrittenAsOne(ld[p].data, ld[p].ts)

-----------------------------------------------------------------------------
(* Site parsers normalizing one raw item: CSGOEmpireParser.transform's map
   callback, HellcaseParser.transform's push and CSGOCasesParser.parseItemName.
   A raw CSGOEmpire item names the fields it lacks in its field absent. *)

EmpireFields == {"item_type", "item_name", "item_wear", "has_star", "is_stattrak",
                 "price", "chance", "image_url"}

\* the field f of the raw item is there (item.f is not undefined)
Has(raw, f) == f \notin raw.absent

\* what a parser leaves behind when it throws
Threw == [threw |-> TRUE]

\* CSGOEmpireParser.extractPhase(item.item_name): null for no name, else the
\* same patterns in the same order
CSGOEmpire_extractPhase(raw) ==
    IF ~Has(raw, "item_name") \/ raw.item_name = <<>> THEN NoPhase
    ELSE extractPhase(raw.item_name)

\* CSGOEmpireParser.cleanSkinName(skinName):
\* replace(/\s*-\s*(Phase \d|Ruby|Sapphire|Emerald|Black Pearl)$/i, '').trim()
CSGOEmpire_cleanSkinName(skinName) ==
    IF skinName = <<>> THEN <<>>
    ELSE IF skinName[Len(skinName)] \notin
                PhaseDigitNames \cup {GemNames[i] : i \in 1..Len(GemNames)}
    THEN Trim(skinName)
    ELSE IF TrimEnd(SubSeq(skinName, 1, Len(skinName) - 1)) # <<>>
            /\ EndsWith(TrimEnd(SubSeq(skinName, 1, Len(skinName) - 1)), <<"-">>)
    THEN Trim(SubSeq(skinName, 1,
                     Len(TrimEnd(SubSeq(skinName, 1, Len(skinName) - 1))) - 1))
    ELSE Trim(skinName)

\* CSGOEmpireParser.normalizeWear(wear)
CSGOEmpire_normalizeWear(wear) ==
    IF wear = <<>> THEN <<>>
    ELSE IF wear = <<"Factory New">> THEN <<"FN">>
    ELSE IF wear = <<"Minimal Wear">> THEN <<"MW">>
    ELSE IF wear = <<"Field-Tested">> THEN <<"FT">>
    ELSE IF wear = <<"Well-Worn">> THEN <<"WW">>
    ELSE IF wear = <<"Battle-Scarred">> THEN <<"BS">>
    ELSE wear

\* the weaponName of the map callback: a template string spells an absent
\* field 'undefined'; without the star an absent item_type stays undefined,
\* which is <<>> here and named in the item's field undef
CSGOEmpire_weaponName(raw, star, isVanilla) ==
    IF isVanilla THEN StarCanon \o Trim(raw.item_name)
    ELSE IF star
    THEN StarCanon \o (IF Has(raw, "item_type") THEN raw.item_type ELSE <<"undefined">>)
    ELSE IF Has(raw, "item_type") THEN raw.item_type ELSE <<>>

\* the map callback of CSGOEmpireParser.transform, coinToUsd being its default
\* 0.5408: it throws on item.item_name.trim() of a vanilla item without a
\* name, on weaponName.startsWith of an item without star and item_type, and
\* on item.image_url.startsWith of an item without image_url
CSGOEmpire_itemOf(raw, star, isVanilla, phase) ==
    IF isVanilla /\ ~Has(raw, "item_name") THEN Threw
    ELSE IF ~isVanilla /\ ~star /\ ~Has(raw, "item_type") THEN Threw
    ELSE IF ~Has(raw, "image_url") THEN Threw
    ELSE [threw |-> FALSE,
          weaponName |-> CSGOEmpire_weaponName(raw, star, isVanilla),
          skinName |-> IF isVanilla \/ ~Has(raw, "item_name") THEN <<>>
                       ELSE CSGOEmpire_cleanSkinName(raw.item_name),
          wear |-> IF Has(raw, "item_wear") THEN CSGOEmpire_normalizeWear(raw.item_wear)
                   ELSE <<>>,
          wearFull |-> IF Has(raw, "item_wear") THEN raw.item_wear ELSE <<>>,
          isStattrak |-> Has(raw, "is_stattrak") /\ raw.is_stattrak,
          price |-> JsMul(JsDiv(IF Has(raw, "price") THEN Num(raw.price) ELSE Undefined,
                                Num(100)), Norm(5408, 10000)),
          odds |-> IF Has(raw, "chance") THEN Num(raw.chance) ELSE Undefined,
          marketHashName |->
              IF isVanilla THEN CSGOEmpire_weaponName(raw, star, isVanilla)
              ELSE CSGOEmpire_buildMarketHashName(
                       CSGOEmpire_weaponName(raw, star, isVanilla),
                       IF Has(raw, "item_name") THEN CSGOEmpire_cleanSkinName(raw.item_name)
                       ELSE <<>>,
                       IF Has(raw, "item_wear") THEN raw.item_wear ELSE <<>>,
                       Has(raw, "is_stattrak") /\ raw.is_stattrak, phase),
          phase |-> phase,
          undef |-> (IF Has(raw, "item_wear") THEN {} ELSE {"wearFull"})
                        \cup (IF Has(raw, "chance") THEN {} ELSE {"odds"})]

\* CSGOCasesParser.parseItemName after its StatTrak and Souvenir checks: the
\* phase is extracted, the weapon and the skin are split at ' | '
CSGOCases_split(name, isStattrak, isSouvenir) ==
    [weaponName |-> Trim(IF StartsWith(name, StarCanon)
                         THEN StarCanon \o SplitPart0(Substring(name, 2))
                         ELSE IF StartsWith(name, <<"Sticker", " ", "|">>) THEN <<"Sticker">>
                         ELSE SplitPart0(name)),
     skinName |-> Trim(IF StartsWith(name, StarCanon) THEN SplitPart1(Substring(name, 2))
                       ELSE IF StartsWith(name, <<"Sticker", " ", "|">>)
                       THEN ReplaceFirst(name, <<"Sticker", " ", "|", " ">>, <<>>)
                       ELSE SplitPart1(name)),
     isStattrak |-> isStattrak, isSouvenir |-> isSouvenir, phase |-> extractPhase(name)]

\* CSGOCasesParser.parseItemName(fullName), its Souvenir check
CSGOCases_souvenir(name, isStattrak) ==
    IF Includes(name, <<"Souvenir">>)
    THEN CSGOCases_split(ReplaceFirst(name, <<"Souvenir", " ">>, <<>>), isStattrak, TRUE)
    ELSE CSGOCases_split(name, isStattrak, FALSE)

\* CSGOCasesParser.parseItemName(fullName)
CSGOCases_parseItemName(fullName) ==
    IF Includes(fullName, <<"StatTrak">>)
    THEN CSGOCases_souvenir(ReplaceFirst(ReplaceFirst(fullName, StatTrakTM, <<>>),
                                         <<"StatTrak", " ">>, <<>>), TRUE)
    ELSE CSGOCases_souvenir(fullName, FALSE)

\* skin names as the sites spell them
RawSkinNames ==
    {<<"Redline">>, <<"Doppler">>,
     <<"Doppler", " ", "-", " ", "Phase 2">>,
     <<"Doppler", " ", "Phase 2">>,
     <<"Doppler", " ", "(", "Phase 2", ")">>,
     <<"Gamma", " ", "Doppler", " ", "-", " ", "Emerald">>,
     <<"Doppler", " ", "Ruby", " ", "Phase 1">>,
     <<"Ruby", " ", "Sunset">>}

EmpireRaws ==
    {[absent |-> a, item_type |-> <<"Karambit">>, item_name |-> n,
      item_wear |-> <<"Factory New">>, has_star |-> s, is_stattrak |-> TRUE,
      price |-> 15000, chance |-> 5, image_url |-> <<"hash">>] :
        a \in SUBSET EmpireFields, n \in RawSkinNames, s \in BOOLEAN}

HellcaseRaws ==
    {[weapon_name |-> <<"U+2605", " ", "Karambit">>, skin_name |-> n] : n \in RawSkinNames}

HellcaseVariant ==
    [steam_exterior |-> <<"Factory New">>, is_stattrak |-> FALSE,
     steam_price_en |-> 1000, odds |-> 30]

CSGOCasesNames ==
    {st \o <<"U+2605", " ", "Karambit">> \o Sep \o n : st \in {<<>>, StatTrakTM}, n \in RawSkinNames}

normRest == <<statsVars, testResult, nav, promo, prices, lookup, nameVars, loadVars>>

\* one call of a parser on one raw item, the first in the page
NormalizeCSGOEmpire(raw) ==
    /\ norm = Null
    /\ norm' = [by |-> "csgoempire", raw |-> raw,
                name |-> IF Has(raw, "item_name") THEN raw.item_name ELSE <<>>,
                out |-> CSGOEmpire_itemOf(raw, Has(raw, "has_star") /\ raw.has_star,
                            Has(raw, "has_star") /\ raw.has_star /\ ~Has(raw, "item_wear"),
                            CSGOEmpire_extractPhase(raw))]
    /\ UNCHANGED normRest

NormalizeHellcase(raw) ==
    /\ norm = Null
    /\ norm' = [by |-> "hellcase", raw |-> raw, name |-> raw.skin_name,
                out |-> Hellcase_itemOf(raw, HellcaseVariant)]
    /\ UNCHANGED normRest

NormalizeCSGOCases(fullName) ==
    /\ norm = Null
    /\ norm' = [by |-> "csgocases", raw |-> fullName, name |-> fullName,
                out |-> CSGOCases_parseItemName(fullName)]
    /\ UNCHANGED normRest

InitNorm ==
    /\ StatsIdle
    /\ NamesIdle
    /\ LoadIdle
    /\ prices = Null
    /\ lookup = Null

NextNorm ==
    \/ \E raw \in EmpireRaws : NormalizeCSGOEmpire(raw)
    \/ \E raw \in HellcaseRaws : NormalizeHellcase(raw)
    \/ \E fullName \in CSGOCasesNames : NormalizeCSGOCases(fullName)

SpecNorm == InitNorm /\ [][NextNorm]_vars

\* C24 as stated: normalizing a raw CSGOEmpire item never throws, whatever
\* fields it lacks, and the item produced has a numeric price and numeric
\* odds and no field left undefined
C24_NeverThrowsAlwaysNumeric ==
    (norm # Null /\ norm.by = "csgoempire") =>
        /\ ~norm.out.threw
        /\ IsNum(norm.out.price)
        /\ IsNum(norm.out.odds)
        /\ norm.out.undef = {}

\* a parser produced an item
Produced == norm # Null /\ (norm.by = "csgoempire" => ~norm.out.threw)

\* the phase is the first label of the ordered list that the name holds
FirstLabelOf(name, phase) ==
    \E i \in 1..Len(PhaseNames) :
        /\ PhaseNames[i] = phase
        /\ Includes(name, <<phase>>)
        /\ \A j \in 1..(i - 1) : ~Includes(name, <<PhaseNames[j]>>)

\* the first two parts of C25: a phase is extracted only from a name that
\* contains "Doppler", and it is the first label of the list the name holds
PhaseExtractedInOrder ==
    Produced =>
        IF Includes(norm.name, <<"Doppler">>)
               /\ \E i \in 1..Len(PhaseNames) : Includes(norm.name, <<PhaseNames[i]>>)
        THEN FirstLabelOf(norm.name, norm.out.phase)
        ELSE norm.out.phase = NoPhase

\* C25 as stated: the phase comes from a name that contains "Doppler", is
\* the first label the name holds, and is stripped: an item with a phase has
\* a skinName that does not contain the label
C25_PhaseLabelStripped ==
    /\ PhaseExtractedInOrder
    /\ (Produced /\ norm.out.phase # NoPhase) =>
           ~Includes(norm.out.skinName, <<norm.out.phase>>)

-----------------------------------------------------------------------------
(* Claims about the items a view keeps *)

\* C26: in a rendered view the processed items are the case's items, in the
\* case's order and with every field as the adapter gave it (the site price
\* included), plus the realPrice annotation; the case's items are as given
C26_ItemsKeptAsGiven ==
    spc = "rendered" =>
        /\ Len(items) = Len(caseData.items)
        /\ \A i \in 1..Len(items) :
               /\ DOMAIN items[i] = DOMAIN caseData.items[i] \cup {"realPrice"}
               /\ [f \in DOMAIN caseData.items[i] |-> items[i][f]] = caseData.items[i]

\* C26 witness: a rendered case whose items come in rising site price, so
\* that the sorted table has another order, the first with a real price
C26_Witness ==
    /\ spc = "rendered"
    /\ Len(items) = 2
    /\ items[1].price < items[2].price
    /\ items[1].realPrice # Null
    /\ renderTable(items).rows # items

-----------------------------------------------------------------------------
(* Views of cases with Doppler items, over snapshots with doppler sub-tables *)

\* a Karambit Doppler as a site gives it: the phase, and the name with or
\* without the phase behind it
DopplerKnife(marketHashName, phase) ==
    [weaponName |-> <<"U+2605", " ", "Karambit">>, skinName |-> <<"Doppler">>,
     wearFull |-> <<"Factory New">>, isStattrak |-> FALSE, marketHashName |-> marketHashName,
     phase |-> phase, price |-> 1000, odds |-> 30]

DopplerItems ==
    {DopplerKnife(KnifePhase2Name, "Phase 2"), DopplerKnife(KnifeName, "Phase 2"),
     DopplerKnife(KnifeRubyName, "Ruby"), DopplerKnife(KnifeName, NoPhase), Rifle(100, 70)}

DopplerCaseDatas ==
    {[casePrice |-> 250, items |-> its] : its \in UNION {[1..n -> DopplerItems] : n \in 1..2}}

InitDoppler ==
    /\ StatsIdle
    /\ NamesIdle
    /\ LoadIdle
    /\ prices \in LookupSnapshots
    /\ lookup = Null

NextDoppler == \E cd \in DopplerCaseDatas : LoadData(cd, Null)

SpecDoppler == InitDoppler /\ [][NextDoppler]_vars

\* C27 as stated: the real price attached to an item with a phase is what
\* getRealPrice answers for the item's name with that phase
C27_PhasePriceAttached ==
    spc = "rendered" =>
        \A i \in 1..Len(items) :
            items[i].phase # NoPhase =>
                items[i].realPrice =
                    getRealPrice(prices, items[i].weaponName, items[i].skinName,
                                 items[i].wearFull, items[i].isStattrak,
                                 items[i].marketHashName, items[i].phase)

====
